---- MODULE Spec2Model ----
(***************************************************************************)
(* License activation and validation engine of eyesee-exe.                 *)
(*                                                                         *)
(* Two builds of the engine exist in the repository:                       *)
(*   "pre"  - pre-binding: 6-segment keys with embedded expiry and         *)
(*            hardware fragment, purely local validation;                  *)
(*   "post" - post-binding: 4-segment keys, validation by the license      *)
(*            server with an offline verdict cache.                        *)
(*                                                                         *)
(* Time is counted in hours since the Unix epoch (the code counts          *)
(* milliseconds; every clock value of the model is a whole hour).          *)
(* Characters are numbers: 0..25 are 'A'..'Z', 26..35 are '0'..'9' (the    *)
(* index in CONFIG.CHARSET), 36..61 are 'a'..'z', 62 is a character        *)
(* outside every alphabet, 63 is a blank and 64 is '-'.  A string is a     *)
(* sequence of characters.  An optional value (null / undefined / missing  *)
(* key) is the empty sequence, a present value v is <<v>>.                 *)
(***************************************************************************)
EXTENDS Integers, Sequences, FiniteSets, TLC

VARIABLES
    mode,               \* which build of the engine runs: "pre" or "post"
    now,                \* the local clock (Date.now()), in hours
    machine,            \* the machine the installation currently sits on
    cachedHardwareId,   \* hardware-id.js: cachedHardwareId of the process
    initialized,        \* LicenseStorage.initialized / LicenseManager.initialized
    encryptionPassword, \* LicenseStorage.encryptionPassword
    fileKey,            \* the encryptionKey the store file was last written with
    file,               \* the contents of the store file
    last,               \* the call that has just returned: arguments, result
    chain,              \* how far activate -> deactivate -> validate has got
    codec,              \* license-crypto.js on its own: the key last handled
    request,            \* the request to the license server a call waits for
    manager,            \* LicenseManager: this.currentStatus, this.licenseData
    host,               \* the host main process: its windows
    backup,             \* the backup copy of a removed record, if one was made
    inflight,           \* the calls that have sent a request and await its answer
    authority,          \* the license server: what it holds about this machine
    round               \* the calls made since no call was under way, and the
                        \* store and server they started from

vars == <<mode, now, machine, cachedHardwareId, initialized,
          encryptionPassword, fileKey, file, last, chain, codec, request,
          manager, host, backup, inflight, authority, round>>

None == <<>>
Some(v) == <<v>>
Has(o) == o # <<>>
Val(o) == o[1]

(***************************************************************************)
(* Characters and strings                                                  *)
(***************************************************************************)
CHARSET == 0..35
CharA == 0
Char0 == 26
LowerA == 36
BadChar == 62
Blank == 63
Dash == 64

MS_PER_HOUR == 3600000
HOURS_PER_DAY == 24

\* String.prototype.toUpperCase on one character
UpperChar(c) == IF c >= LowerA /\ c < LowerA + 26 THEN c - LowerA ELSE c

toUpperCase(s) == [i \in 1..Len(s) |-> UpperChar(s[i])]

\* String.prototype.substring(from, to), 0-based, to exclusive, clamped
substring(s, from, to) ==
    LET t == IF to > Len(s) THEN Len(s) ELSE to
    IN  IF from >= t THEN <<>> ELSE SubSeq(s, from + 1, t)

RECURSIVE TrimLeft(_)
TrimLeft(s) == IF s # <<>> /\ Head(s) = Blank THEN TrimLeft(Tail(s)) ELSE s

RECURSIVE TrimRight(_)
TrimRight(s) ==
    IF s # <<>> /\ s[Len(s)] = Blank THEN TrimRight(SubSeq(s, 1, Len(s) - 1)) ELSE s

\* String.prototype.trim
trim(s) == TrimRight(TrimLeft(s))

\* String.prototype.split('-'): the pieces between the dashes
RECURSIVE SplitFrom(_, _, _)
SplitFrom(s, i, cur) ==
    IF i > Len(s) THEN <<cur>>
    ELSE IF s[i] = Dash THEN <<cur>> \o SplitFrom(s, i + 1, <<>>)
    ELSE SplitFrom(s, i + 1, Append(cur, s[i]))

split(s) == SplitFrom(s, 1, <<>>)

\* Array.prototype.join('-')
RECURSIVE join(_)
join(segs) ==
    IF Len(segs) = 0 THEN <<>>
    ELSE IF Len(segs) = 1 THEN segs[1]
    ELSE segs[1] \o <<Dash>> \o join(Tail(segs))

(***************************************************************************)
(* license-crypto.js: base-36 coding and the checksum                      *)
(***************************************************************************)
KEY_SEGMENTS_PRE == 6
KEY_SEGMENTS_POST == 4
SEGMENT_LENGTH == 4

RECURSIVE Base36Digits(_)
Base36Digits(num) ==
    IF num > 0 THEN Append(Base36Digits(num \div 36), num % 36) ELSE <<>>

RECURSIVE PadLeft(_, _)
PadLeft(s, length) == IF Len(s) < length THEN PadLeft(<<CharA>> \o s, length) ELSE s

encodeBase36(num, length) == substring(PadLeft(Base36Digits(num), length), 0, length)

\* CONFIG.CHARSET.indexOf(c): -1 for a character outside the alphabet
IndexOfChar(c) == IF c \in CHARSET THEN c ELSE -1

RECURSIVE decodeBase36(_)
decodeBase36(str) ==
    IF str = <<>> THEN 0
    ELSE decodeBase36(SubSeq(str, 1, Len(str) - 1)) * 36 + IndexOfChar(str[Len(str)])

\* HMAC-SHA256 is not computed: HmacWord stands for
\* parseInt(hmac(secret, data).substring(0, 8), 16), a fixed function of the
\* secret and of every character of the data, with values below HashMod.
HashMod == 50000017

RECURSIVE HmacWord(_, _)
HmacWord(secret, data) ==
    IF data = <<>> THEN secret % HashMod
    ELSE (HmacWord(secret, SubSeq(data, 1, Len(data) - 1)) * 37 + data[Len(data)] + 1) % HashMod

generateChecksum(secret, data) == encodeBase36(HmacWord(secret, data), SEGMENT_LENGTH)

\* a comparison of the checksum that stops before the last character
ChecksumMatches_Prefix(segment, expectedChecksum) ==
    substring(segment, 0, SEGMENT_LENGTH - 1)
        = substring(expectedChecksum, 0, SEGMENT_LENGTH - 1)

\* seg !== expectedChecksum of validateLicenseKey, negated
ChecksumMatches(segment, expectedChecksum) == segment = expectedChecksum

(***************************************************************************)
(* Pre-binding codec (license-crypto.js of the eyesee build)               *)
(***************************************************************************)
SECRET_KEY_PRE == 1
PRODUCT_CODE_PRE == <<4, 18, 26, 27>>          \* 'ES01'

MIN_DATE == 438288                             \* new Date('2020-01-01'), hours
MAX_DATE == 1139568                            \* new Date('2100-01-01'), hours
HOURS_PER_EXPIRY_UNIT == 240                   \* 1000 * 60 * 60 * 24 * 10 ms

ErrNone == "none"
ErrSegmentCount == "Format key tidak valid. Gunakan format"
ErrSegmentLength == "Format key tidak valid"
ErrCharset == "Karakter tidak valid dalam key"
ErrChecksum == "License key tidak valid"
ErrProductPre == "Product code tidak valid"
ErrProductPost == "License key bukan untuk aplikasi ini"
ErrExpiryBound == "Tanggal expired tidak valid dalam key"

\* the error of the first segment (and, in it, the first check) that fails
RECURSIVE SegmentError(_)
SegmentError(segments) ==
    IF segments = <<>> THEN ErrNone
    ELSE IF Len(Head(segments)) # SEGMENT_LENGTH THEN ErrSegmentLength
    ELSE IF \E i \in 1..Len(Head(segments)) : Head(segments)[i] \notin CHARSET
         THEN ErrCharset
    ELSE SegmentError(Tail(segments))

generateLicenseKeyPre(expiryDate, hardwareId, random1, random2) ==
    LET hwNormalized == substring(toUpperCase(hardwareId), 0, 8)
        seg1 == encodeBase36(random1, 2) \o substring(PRODUCT_CODE_PRE, 0, 2)
        seg2 == substring(PRODUCT_CODE_PRE, 2, 4) \o encodeBase36(random2, 2)
        daysFromEpoch == expiryDate \div HOURS_PER_EXPIRY_UNIT
        seg3 == encodeBase36(daysFromEpoch, SEGMENT_LENGTH)
        seg4 == substring(hwNormalized, 0, 4)
        seg5 == substring(hwNormalized, 4, 8)
        dataToCheck == seg1 \o seg2 \o seg3 \o seg4 \o seg5
        seg6 == generateChecksum(SECRET_KEY_PRE, dataToCheck)
    IN  join(<<seg1, seg2, seg3, seg4, seg5, seg6>>)

KeyResultPre(valid, expiryDate, hardwareId, error) ==
    [valid |-> valid, expiryDate |-> expiryDate, hardwareId |-> hardwareId,
     productCode |-> None, error |-> error]

\* a validateLicenseKey that also rejects a key whose expiry is behind the
\* clock
validateLicenseKeyPre_RejectsPast(licenseKey) ==
    LET cleanKey == toUpperCase(trim(licenseKey))
        segments == split(cleanKey)
    IN  IF Len(segments) # KEY_SEGMENTS_PRE
        THEN KeyResultPre(FALSE, None, None, ErrSegmentCount)
        ELSE IF SegmentError(segments) # ErrNone
        THEN KeyResultPre(FALSE, None, None, SegmentError(segments))
        ELSE
        LET dataToCheck == segments[1] \o segments[2] \o segments[3]
                               \o segments[4] \o segments[5]
            productCode == substring(segments[1], 2, 4) \o substring(segments[2], 0, 2)
            expiryDate == decodeBase36(segments[3]) * HOURS_PER_EXPIRY_UNIT
        IN  IF ~ChecksumMatches(segments[6],
                                generateChecksum(SECRET_KEY_PRE, dataToCheck))
            THEN KeyResultPre(FALSE, None, None, ErrChecksum)
            ELSE IF productCode # PRODUCT_CODE_PRE
            THEN KeyResultPre(FALSE, None, None, ErrProductPre)
            ELSE IF expiryDate < MIN_DATE \/ expiryDate > MAX_DATE \/ expiryDate < now
            THEN KeyResultPre(FALSE, None, None, ErrExpiryBound)
            ELSE KeyResultPre(TRUE, Some(expiryDate),
                              Some(segments[4] \o segments[5]), ErrNone)

\* validateLicenseKey of the pre-binding build
validateLicenseKeyPre(licenseKey) ==
    LET cleanKey == toUpperCase(trim(licenseKey))
        segments == split(cleanKey)
    IN  IF Len(segments) # KEY_SEGMENTS_PRE
        THEN KeyResultPre(FALSE, None, None, ErrSegmentCount)
        ELSE IF SegmentError(segments) # ErrNone
        THEN KeyResultPre(FALSE, None, None, SegmentError(segments))
        ELSE
        LET seg1 == segments[1]
            seg2 == segments[2]
            seg3 == segments[3]
            seg4 == segments[4]
            seg5 == segments[5]
            seg6 == segments[6]
            dataToCheck == seg1 \o seg2 \o seg3 \o seg4 \o seg5
            expectedChecksum == generateChecksum(SECRET_KEY_PRE, dataToCheck)
            productCode == substring(seg1, 2, 4) \o substring(seg2, 0, 2)
            embeddedHardwareId == seg4 \o seg5
            daysFromEpoch == decodeBase36(seg3)
            expiryDate == daysFromEpoch * HOURS_PER_EXPIRY_UNIT
        IN  IF ~ChecksumMatches(seg6, expectedChecksum)
            THEN KeyResultPre(FALSE, None, None, ErrChecksum)
            ELSE IF productCode # PRODUCT_CODE_PRE
            THEN KeyResultPre(FALSE, None, None, ErrProductPre)
            ELSE IF expiryDate < MIN_DATE \/ expiryDate > MAX_DATE
            THEN KeyResultPre(FALSE, None, None, ErrExpiryBound)
            ELSE KeyResultPre(TRUE, Some(expiryDate), Some(embeddedHardwareId), ErrNone)

(***************************************************************************)
(* Post-binding codec (license-crypto.js of the vcomm build) and the       *)
(* generator of the admin tool                                             *)
(***************************************************************************)
SECRET_KEY_POST == 2
PRODUCT_CODE_POST == <<21, 2, 26, 27>>         \* 'VC01'

\* a generator that writes the first half of the product code twice
generateLicenseKeyPost_FirstHalfTwice(code, secretKey, rnd1, rnd2, rnd3) ==
    LET seg1 == rnd1 \o substring(code, 0, 2)
        seg2 == substring(code, 0, 2) \o rnd2
        seg3 == rnd3
        dataToCheck == seg1 \o seg2 \o seg3
        seg4 == generateChecksum(secretKey, dataToCheck)
    IN  join(<<seg1, seg2, seg3, seg4>>)

\* generateLicenseKey(productId) of the admin tool, for the code and the
\* secret of the product and the random segments drawn
generateLicenseKeyPost(code, secretKey, rnd1, rnd2, rnd3) ==
    LET seg1 == rnd1 \o substring(code, 0, 2)
        seg2 == substring(code, 2, 4) \o rnd2
        seg3 == rnd3
        dataToCheck == seg1 \o seg2 \o seg3
        seg4 == generateChecksum(secretKey, dataToCheck)
    IN  join(<<seg1, seg2, seg3, seg4>>)

KeyResultPost(valid, productCode, error) ==
    [valid |-> valid, expiryDate |-> None, hardwareId |-> None,
     productCode |-> productCode, error |-> error]

\* an argument of activate() that is not a string (a number, null, undefined)
NotAString == <<-1>>

\* what validateLicenseKey does on it: licenseKey.trim() throws a TypeError
ErrTypeError == "TypeError: licenseKey.trim is not a function"

\* validateLicenseKey of a build whose CONFIG holds the product code
\* compiledCode and the secret secretKey
validateLicenseKeyFor(compiledCode, secretKey, licenseKey) ==
    IF licenseKey = NotAString THEN KeyResultPost(FALSE, None, ErrTypeError)
    ELSE
    LET cleanKey == toUpperCase(trim(licenseKey))
        segments == split(cleanKey)
    IN  IF Len(segments) # KEY_SEGMENTS_POST
        THEN KeyResultPost(FALSE, None, ErrSegmentCount)
        ELSE IF SegmentError(segments) # ErrNone
        THEN KeyResultPost(FALSE, None, SegmentError(segments))
        ELSE
        LET seg1 == segments[1]
            seg2 == segments[2]
            seg3 == segments[3]
            seg4 == segments[4]
            productCode == substring(seg1, 2, 4) \o substring(seg2, 0, 2)
            dataToCheck == seg1 \o seg2 \o seg3
            expectedChecksum == generateChecksum(secretKey, dataToCheck)
        IN  IF productCode # compiledCode
            THEN KeyResultPost(FALSE, None, ErrProductPost)
            ELSE IF ~ChecksumMatches(seg4, expectedChecksum)
            THEN KeyResultPost(FALSE, None, ErrChecksum)
            ELSE KeyResultPost(TRUE, Some(productCode), ErrNone)

\* validateLicenseKey of the vcomm build
validateLicenseKeyPost(licenseKey) ==
    validateLicenseKeyFor(PRODUCT_CODE_POST, SECRET_KEY_POST, licenseKey)

(***************************************************************************)
(* hardware-id.js                                                          *)
(***************************************************************************)
OUTPUT_LENGTH == 32

Machines == {"A", "B"}

HexPrefix1 == <<0, 1, 2, 3, 26, 27, 28, 29>>   \* 'ABCD0123'
HexPrefix2 == <<5, 4, 3, 2, 35, 34, 33, 32>>   \* 'FEDC9876'

\* sha256(machine id | cpu | hostname | memory | salt), truncated and
\* uppercased: a fixed 32-character string per machine.  Machines A and B
\* have fingerprints that agree on the first 8 characters and differ later;
\* C is a machine keys are issued for and the installation never sits on.
generateHardwareId(m) ==
    CASE m = "A" -> HexPrefix1 \o [i \in 1..(OUTPUT_LENGTH - 8) |-> 0]
      [] m = "B" -> HexPrefix1 \o [i \in 1..(OUTPUT_LENGTH - 8) |-> 1]
      [] OTHER   -> HexPrefix2 \o [i \in 1..(OUTPUT_LENGTH - 8) |-> 0]

\* getHardwareId(): the cached value, computed on first use
getHardwareId == IF Has(cachedHardwareId) THEN Val(cachedHardwareId)
                 ELSE generateHardwareId(machine)

(***************************************************************************)
(* license-crypto.js: encrypt / decrypt (AES-256-GCM under a key derived   *)
(* from the password).  A blob records the password it was made with and   *)
(* whether its bytes are still the ones encrypt() produced; json tells     *)
(* whether the plaintext parses as JSON.                                   *)
(***************************************************************************)
encrypt(plaintext, password) ==
    [password |-> password, intact |-> TRUE, json |-> TRUE, data |-> plaintext]

\* a decrypt that does not verify the authentication tag
decrypt_NoAuthTag(encryptedData, password) ==
    IF encryptedData.password = password
    THEN Some([json |-> encryptedData.json, data |-> encryptedData.data])
    ELSE None

\* null when the authentication tag does not verify
decrypt(encryptedData, password) ==
    IF encryptedData.intact /\ encryptedData.password = password
    THEN Some([json |-> encryptedData.json, data |-> encryptedData.data])
    ELSE None

(***************************************************************************)
(* license-storage.js over electron-store.  The store file is encrypted    *)
(* with encryptionKey = the storage password; with clearInvalidConfig a    *)
(* file that does not decrypt to JSON reads as an empty store, and the     *)
(* next write replaces it.                                                 *)
(***************************************************************************)
EmptyStore ==
    [licenseData |-> None, boundHardwareId |-> None, activationDate |-> None,
     lastCheckTime |-> None, serverCache |-> None, lastServerCheck |-> None]

\* what store.get / store.has see under the password pw
StoreView(pw) == IF fileKey = Some(pw) THEN file ELSE EmptyStore

\* LicenseStorage.initialize: the password of this process
StoragePassword == IF initialized THEN Val(encryptionPassword) ELSE getHardwareId

\* ensureInitialized of the manager and the storage, and getHardwareId
EnsureInitialized ==
    /\ cachedHardwareId' = Some(getHardwareId)
    /\ initialized' = TRUE
    /\ encryptionPassword' = Some(StoragePassword)

\* store.set / store.delete: the whole store is written back under pw
WriteStore(pw, contents) ==
    /\ fileKey' = Some(pw)
    /\ file' = contents

\* the record saveLicenseData encrypts.  The activation instant (activatedAt,
\* activationDate) is written and never read by the engine: the model keeps
\* the presence of the activationDate key and not its value.
Written == "written"

RecordPre(licenseKey, expiryDate, hardwareId) ==
    [licenseKey |-> licenseKey, expiryDate |-> Some(expiryDate),
     hardwareId |-> hardwareId, productCode |-> None]

RecordPost(licenseKey, hardwareId, productCode) ==
    [licenseKey |-> licenseKey, expiryDate |-> None,
     hardwareId |-> hardwareId, productCode |-> productCode]

\* LicenseStorage.saveLicenseData of the pre-binding build
saveLicenseDataPre(view, pw, licenseKey, expiryDate, hardwareId, t) ==
    [view EXCEPT !.licenseData =
                     Some(encrypt(RecordPre(licenseKey, expiryDate, hardwareId), pw)),
                 !.boundHardwareId = Some(hardwareId),
                 !.activationDate = Some(Written),
                 !.lastCheckTime = Some(t)]

\* LicenseStorage.saveLicenseData of the post-binding build
saveLicenseDataPost(view, pw, licenseKey, hardwareId, productCode) ==
    [view EXCEPT !.licenseData =
                     Some(encrypt(RecordPost(licenseKey, hardwareId, productCode), pw)),
                 !.boundHardwareId = Some(hardwareId)]

\* LicenseStorage.loadLicenseData: null when the key is missing, the blob
\* does not decrypt or the plaintext is not JSON
loadLicenseData(view, pw) ==
    IF ~Has(view.licenseData) THEN None
    ELSE LET decrypted == decrypt(Val(view.licenseData), pw)
         IN  IF ~Has(decrypted) THEN None
             ELSE IF ~Val(decrypted).json THEN None
             ELSE Some(Val(decrypted).data)

hasLicense(view) == Has(view.licenseData)

\* a clearLicenseData that empties the whole store (what clearAll does)
clearLicenseDataPre_ClearAll(view) == EmptyStore

\* LicenseStorage.clearLicenseData of the pre-binding build
clearLicenseDataPre(view) ==
    [view EXCEPT !.licenseData = None, !.boundHardwareId = None,
                 !.activationDate = None]

\* a clearLicenseData that forgets to delete the licenseData key
clearLicenseDataPost_KeepsRecord(view) == [view EXCEPT !.boundHardwareId = None]

\* LicenseStorage.clearLicenseData of the post-binding build
clearLicenseDataPost(view) ==
    [view EXCEPT !.licenseData = None, !.boundHardwareId = None]

\* an updateLastCheckTime that writes nothing
updateLastCheckTime_Skipped(view, t) == view

\* LicenseStorage.updateLastCheckTime
updateLastCheckTime(view, t) == [view EXCEPT !.lastCheckTime = Some(t)]

CLOCK_TOLERANCE_MS == 3600000
CLOCK_TOLERANCE == CLOCK_TOLERANCE_MS \div MS_PER_HOUR

\* LicenseStorage.checkClockManipulation(toleranceMs).manipulated
checkClockManipulation(view, t, tolerance) ==
    /\ Has(view.lastCheckTime)
    /\ t < Val(view.lastCheckTime) - tolerance

\* a || b on numbers: b when a is missing or 0
OrDefault(a, b) == IF Has(a) /\ Val(a) # 0 THEN Val(a) ELSE b

\* LicenseStorage.saveServerCache
saveServerCache(view, serverResponse, t) ==
    [view EXCEPT !.serverCache =
                     Some([valid |-> serverResponse.valid,
                           revoked |-> serverResponse.revoked,
                           cachedAt |-> t,
                           offlineToleranceHours |->
                               OrDefault(serverResponse.offlineToleranceHours, 24)]),
                 !.lastServerCheck = Some(t)]

\* a checkOfflineStatus that is expired already when the elapsed time equals
\* the tolerance
checkOfflineStatus_AtLeast(view, t, toleranceHours) ==
    LET lastCheck == view.lastServerCheck
        cache == view.serverCache
        tolerance == IF Has(cache)
                     THEN OrDefault(Some(Val(cache).offlineToleranceHours), toleranceHours)
                     ELSE toleranceHours
    IN  IF ~Has(lastCheck) \/ Val(lastCheck) = 0
        THEN [hasCache |-> FALSE, expired |-> TRUE]
        ELSE [hasCache |-> TRUE, expired |-> (t - Val(lastCheck)) >= tolerance]

\* LicenseStorage.checkOfflineStatus(toleranceHours)
checkOfflineStatus(view, t, toleranceHours) ==
    LET lastCheck == view.lastServerCheck
        cache == view.serverCache
        tolerance == IF Has(cache)
                     THEN OrDefault(Some(Val(cache).offlineToleranceHours), toleranceHours)
                     ELSE toleranceHours
    IN  IF ~Has(lastCheck) \/ Val(lastCheck) = 0
        THEN [hasCache |-> FALSE, expired |-> TRUE]
        ELSE [hasCache |-> TRUE, expired |-> (t - Val(lastCheck)) > tolerance]

(***************************************************************************)
(* The license keys the model enters                                       *)
(***************************************************************************)
\* the hour of 2026-11-03T00:00Z, a whole number of expiry units
BaseTime == 2076 * HOURS_PER_EXPIRY_UNIT

Lower(s) == [i \in 1..Len(s) |-> IF s[i] < 26 THEN s[i] + LowerA ELSE s[i]]

\* a key with the first character of its last segment replaced
BreakChecksum(k) ==
    [k EXCEPT ![Len(k) - 3] = IF k[Len(k) - 3] = CharA THEN Char0 ELSE CharA]

KeyPreA == generateLicenseKeyPre(BaseTime, generateHardwareId("A"), 4660, 22136)
KeyPreC == generateLicenseKeyPre(BaseTime, generateHardwareId("C"), 7, 65535)
KeyPreOld ==
    generateLicenseKeyPre(BaseTime - 2 * HOURS_PER_EXPIRY_UNIT,
                          generateHardwareId("A"), 4660, 22136)

KeysPre ==
    {KeyPreA, KeyPreC, KeyPreOld, Lower(KeyPreA) \o <<Blank>>, BreakChecksum(KeyPreA)}

SECRET_KEY_BMS == 3
PRODUCT_CODE_BMS == <<1, 12, 26, 27>>          \* 'BM01'

KeyPostVC ==
    generateLicenseKeyPost(PRODUCT_CODE_POST, SECRET_KEY_POST,
                           <<23, 30>>, <<16, 9>>, <<12, 27, 25, 33>>)
KeyPostBM ==
    generateLicenseKeyPost(PRODUCT_CODE_BMS, SECRET_KEY_BMS,
                           <<23, 30>>, <<16, 9>>, <<12, 27, 25, 33>>)

KeysPost == {<<Blank>> \o Lower(KeyPostVC), KeyPostBM, BreakChecksum(KeyPostVC)}

\* validateLicenseKey on the keys of the model, computed once
KeyCheckPre == [k \in KeysPre |-> validateLicenseKeyPre(k)]
KeyCheckPost == [k \in KeysPost \cup {NotAString} |-> validateLicenseKeyPost(k)]

(***************************************************************************)
(* license-manager.js                                                      *)
(***************************************************************************)
VALID == "valid"
EXPIRED == "expired"
GRACE_PERIOD == "grace_period"
INVALID_KEY == "invalid_key"
HARDWARE_MISMATCH == "hardware_mismatch"
CLOCK_MANIPULATED == "clock_manipulated"
NOT_ACTIVATED == "not_activated"
REVOKED == "revoked"
KEY_ALREADY_USED == "key_already_used"
OFFLINE_VALID == "offline_valid"
OFFLINE_EXPIRED == "offline_expired"
SERVER_ERROR == "server_error"

\* no result: the call threw, or its promise was rejected
THROWN == "threw"

\* const LicenseStatus of the pre-binding manager
LicenseStatusPre ==
    {VALID, EXPIRED, GRACE_PERIOD, INVALID_KEY, HARDWARE_MISMATCH,
     CLOCK_MANIPULATED, NOT_ACTIVATED}

\* const LicenseStatus of the post-binding manager
LicenseStatusPost ==
    {VALID, REVOKED, INVALID_KEY, KEY_ALREADY_USED, NOT_ACTIVATED,
     OFFLINE_VALID, OFFLINE_EXPIRED, SERVER_ERROR}

GRACE_PERIOD_DAYS == 7
OFFLINE_TOLERANCE_HOURS == 24

\* Math.ceil(a / b) for b > 0
Ceil(a, b) == -((-a) \div b)

\* LicenseManager.getDaysUntilExpiry
getDaysUntilExpiry(expiryDate, t) == Ceil(expiryDate - t, HOURS_PER_DAY)

\* LicenseManager.isInGracePeriod
isInGracePeriod(expiryDate, t) ==
    LET daysUntilExpiry == getDaysUntilExpiry(expiryDate, t)
    IN  daysUntilExpiry < 0 /\ daysUntilExpiry >= -GRACE_PERIOD_DAYS

\* the outcome of a call: what it returns, the store it leaves and whether
\* it wrote the store at all
Outcome(status, success, view, wrote) ==
    [status |-> status, success |-> success, view |-> view, wrote |-> wrote]

\* LicenseManager.validateLicense of the pre-binding build from
\* "Update last check time" on
ValidateCheckedPre(view, pw, hw, t) ==
    LET checked == updateLastCheckTime(view, t)
        licenseData == loadLicenseData(checked, pw)
    IN  IF ~hasLicense(checked)
        THEN Outcome(NOT_ACTIVATED, FALSE, checked, TRUE)
        ELSE IF ~Has(licenseData)
        THEN Outcome(INVALID_KEY, FALSE, clearLicenseDataPre(checked), TRUE)
        ELSE IF Val(licenseData).hardwareId # hw
        THEN Outcome(HARDWARE_MISMATCH, FALSE, checked, TRUE)
        ELSE
        LET expiryDate == Val(Val(licenseData).expiryDate)
            daysUntilExpiry == getDaysUntilExpiry(expiryDate, t)
        IN  IF daysUntilExpiry < 0
            THEN IF isInGracePeriod(expiryDate, t)
                 THEN Outcome(GRACE_PERIOD, FALSE, checked, TRUE)
                 ELSE Outcome(EXPIRED, FALSE, checked, TRUE)
            ELSE Outcome(VALID, FALSE, checked, TRUE)

\* a validateLicense that looks for the record before it looks at the clock
validateLicensePre_RecordFirst(view, pw, hw, t) ==
    IF ~hasLicense(view) THEN ValidateCheckedPre(view, pw, hw, t)
    ELSE IF checkClockManipulation(view, t, CLOCK_TOLERANCE)
    THEN Outcome(CLOCK_MANIPULATED, FALSE, view, FALSE)
    ELSE ValidateCheckedPre(view, pw, hw, t)

\* LicenseManager.validateLicense of the pre-binding build, on the store
\* view, the storage password pw, the hardware id hw and the clock t
validateLicensePre(view, pw, hw, t) ==
    IF checkClockManipulation(view, t, CLOCK_TOLERANCE)
    THEN Outcome(CLOCK_MANIPULATED, FALSE, view, FALSE)
    ELSE ValidateCheckedPre(view, pw, hw, t)

\* a pre-binding check that looks at the length of the fragment only
EmbeddedHardwareMatches_LengthOnly(embeddedHwId, currentHardwareId) ==
    Len(embeddedHwId) = Len(substring(currentHardwareId, 0, 8))

\* the PRE-BINDING CHECK of activateLicense
EmbeddedHardwareMatches(embeddedHwId, currentHardwareId) ==
    embeddedHwId = toUpperCase(substring(currentHardwareId, 0, 8))

\* an activateLicense that refuses no key for its expiry date
activateLicensePre_AnyExpiry(view, pw, hw, t, licenseKey) ==
    LET validation == KeyCheckPre[licenseKey]
    IN  IF ~validation.valid
        THEN Outcome(validation.error, FALSE, view, FALSE)
        ELSE IF ~EmbeddedHardwareMatches(Val(validation.hardwareId), hw)
        THEN Outcome("License key ini tidak terdaftar untuk perangkat ini.",
                     FALSE, view, FALSE)
        ELSE Outcome("Lisensi berhasil diaktifkan!", TRUE,
                     saveLicenseDataPre(view, pw, toUpperCase(licenseKey),
                                        Val(validation.expiryDate), hw, t),
                     TRUE)

\* LicenseManager.activateLicense of the pre-binding build
activateLicensePre(view, pw, hw, t, licenseKey) ==
    LET validation == KeyCheckPre[licenseKey]
    IN  IF ~validation.valid
        THEN Outcome(validation.error, FALSE, view, FALSE)
        ELSE IF getDaysUntilExpiry(Val(validation.expiryDate), t) < -GRACE_PERIOD_DAYS
        THEN Outcome("License key ini sudah expired.", FALSE, view, FALSE)
        ELSE IF ~EmbeddedHardwareMatches(Val(validation.hardwareId), hw)
        THEN Outcome("License key ini tidak terdaftar untuk perangkat ini.",
                     FALSE, view, FALSE)
        ELSE Outcome("Lisensi berhasil diaktifkan!", TRUE,
                     saveLicenseDataPre(view, pw, toUpperCase(licenseKey),
                                        Val(validation.expiryDate), hw, t),
                     TRUE)

\* LicenseManager.deactivateLicense of the pre-binding build
deactivateLicensePre(view) ==
    Outcome("Lisensi berhasil dihapus.", TRUE, clearLicenseDataPre(view), TRUE)

(***************************************************************************)
(* license-server-client.js and the post-binding license-manager.js        *)
(***************************************************************************)
\* what serverClient.validateLicense resolves to: the offline outcome for
\* every rejected request, the fields of the response otherwise
MsgOffline == "Tidak dapat terhubung ke server lisensi"
MsgTimeout == "Server tidak merespons"
MsgHttp == "HTTP status"

Offline ==
    [offline |-> TRUE, valid |-> FALSE, activated |-> FALSE, revoked |-> FALSE,
     offlineToleranceHours |-> None, error |-> MsgOffline]

ServerAnswer(response) ==
    [offline |-> FALSE, valid |-> response.valid, activated |-> response.activated,
     revoked |-> response.revoked,
     offlineToleranceHours |->
         Some(OrDefault(response.offlineToleranceHours, 24)),
     error |-> ""]

\* what can happen to a request: the server answers with a 2xx status and a
\* JSON body, or with another status, the connection is refused, the host
\* name does not resolve, or nothing arrives within requestTimeoutMs
NetworkEvents == {"response", "badStatus", "refused", "dns", "timeout"}

\* a makeRequest without the 'timeout' handler: the promise stays pending
makeRequest_NoTimeoutHandler(event, body) ==
    CASE event = "response" ->
             [settled |-> TRUE, resolved |-> TRUE, code |-> "", message |-> "",
              body |-> <<body>>]
      [] event = "badStatus" ->
             [settled |-> TRUE, resolved |-> FALSE, code |-> "",
              message |-> MsgHttp, body |-> <<>>]
      [] event \in {"refused", "dns"} ->
             [settled |-> TRUE, resolved |-> FALSE, code |-> "OFFLINE",
              message |-> MsgOffline, body |-> <<>>]
      [] OTHER ->
             [settled |-> FALSE, resolved |-> FALSE, code |-> "",
              message |-> "", body |-> <<>>]

\* makeRequest: how the promise settles on each event
makeRequest(event, body) ==
    CASE event = "response" ->
             [settled |-> TRUE, resolved |-> TRUE, code |-> "", message |-> "",
              body |-> <<body>>]
      [] event = "badStatus" ->
             [settled |-> TRUE, resolved |-> FALSE, code |-> "",
              message |-> MsgHttp, body |-> <<>>]
      [] event \in {"refused", "dns"} ->
             [settled |-> TRUE, resolved |-> FALSE, code |-> "OFFLINE",
              message |-> MsgOffline, body |-> <<>>]
      [] OTHER ->
             [settled |-> TRUE, resolved |-> FALSE, code |-> "TIMEOUT",
              message |-> MsgTimeout, body |-> <<>>]

\* a validateLicense of the client that tells offline by the error code, as
\* activateLicense does
clientValidateLicense_OfflineByCode(settlement) ==
    IF settlement.resolved THEN ServerAnswer(settlement.body[1])
    ELSE [Offline EXCEPT !.offline = (settlement.code = "OFFLINE"),
                         !.error = settlement.message]

\* validateLicense of the client on a settled request
clientValidateLicense(settlement) ==
    IF settlement.resolved THEN ServerAnswer(settlement.body[1])
    ELSE [Offline EXCEPT !.error = settlement.message]

\* activateLicense of the client on a settled request whose body, if any,
\* says success or not
clientActivateLicense(settlement) ==
    IF settlement.resolved
    THEN [success |-> settlement.body[1], offline |-> FALSE]
    ELSE [success |-> FALSE, offline |-> (settlement.code = "OFFLINE")]

\* a handleOfflineValidation that looks at the tolerance before the
\* revocation
handleOfflineValidation_ExpiryFirst(view, t) ==
    LET offlineStatus == checkOfflineStatus(view, t, OFFLINE_TOLERANCE_HOURS)
        cache == view.serverCache
    IN  IF ~offlineStatus.hasCache \/ offlineStatus.expired
        THEN Outcome(OFFLINE_EXPIRED, FALSE, view, FALSE)
        ELSE IF Has(cache) /\ Val(cache).revoked
        THEN Outcome(REVOKED, FALSE, view, FALSE)
        ELSE Outcome(OFFLINE_VALID, FALSE, view, FALSE)

\* a handleOfflineValidation that names the statuses as the pre-binding
\* manager does: LicenseStatus.EXPIRED is not a member of this enumeration
handleOfflineValidation_PreStatuses(view, t) ==
    LET offlineStatus == checkOfflineStatus(view, t, OFFLINE_TOLERANCE_HOURS)
        cache == view.serverCache
    IN  IF ~offlineStatus.hasCache
        THEN Outcome(EXPIRED, FALSE, view, FALSE)
        ELSE IF Has(cache) /\ Val(cache).revoked
        THEN Outcome(REVOKED, FALSE, view, FALSE)
        ELSE IF offlineStatus.expired
        THEN Outcome(EXPIRED, FALSE, view, FALSE)
        ELSE Outcome(OFFLINE_VALID, FALSE, view, FALSE)

\* a handleOfflineValidation that counts an offline check within the
\* tolerance as a server check
handleOfflineValidation_Refreshes(view, t) ==
    LET offlineStatus == checkOfflineStatus(view, t, OFFLINE_TOLERANCE_HOURS)
        cache == view.serverCache
    IN  IF ~offlineStatus.hasCache
        THEN Outcome(OFFLINE_EXPIRED, FALSE, view, FALSE)
        ELSE IF Has(cache) /\ Val(cache).revoked
        THEN Outcome(REVOKED, FALSE, view, FALSE)
        ELSE IF offlineStatus.expired
        THEN Outcome(OFFLINE_EXPIRED, FALSE, view, FALSE)
        ELSE Outcome(OFFLINE_VALID, FALSE,
                     [view EXCEPT !.lastServerCheck = Some(t)], TRUE)

\* LicenseManager.handleOfflineValidation
handleOfflineValidation(view, t) ==
    LET offlineStatus == checkOfflineStatus(view, t, OFFLINE_TOLERANCE_HOURS)
        cache == view.serverCache
    IN  IF ~offlineStatus.hasCache
        THEN Outcome(OFFLINE_EXPIRED, FALSE, view, FALSE)
        ELSE IF Has(cache) /\ Val(cache).revoked
        THEN Outcome(REVOKED, FALSE, view, FALSE)
        ELSE IF offlineStatus.expired
        THEN Outcome(OFFLINE_EXPIRED, FALSE, view, FALSE)
        ELSE Outcome(OFFLINE_VALID, FALSE, view, FALSE)

\* a validateLicense that takes the server branch before it looks for the
\* record
validateLicensePost_ServerFirst(view, pw, t, serverResult) ==
    IF serverResult.offline
    THEN handleOfflineValidation(view, t)
    ELSE IF ~hasLicense(view)
    THEN Outcome(NOT_ACTIVATED, FALSE, view, FALSE)
    ELSE IF ~Has(loadLicenseData(view, pw))
    THEN Outcome(INVALID_KEY, FALSE, clearLicenseDataPost(view), TRUE)
    ELSE
    LET cached == saveServerCache(view, serverResult, t)
    IN  IF serverResult.revoked
        THEN Outcome(REVOKED, FALSE, cached, TRUE)
        ELSE IF serverResult.valid
        THEN Outcome(VALID, FALSE, cached, TRUE)
        ELSE IF ~serverResult.activated
        THEN Outcome(NOT_ACTIVATED, FALSE, clearLicenseDataPost(cached), TRUE)
        ELSE Outcome(INVALID_KEY, FALSE, cached, TRUE)

\* a validateLicense that looks at valid before it looks at revoked
validateLicensePost_ValidFirst(view, pw, t, serverResult) ==
    IF ~hasLicense(view)
    THEN Outcome(NOT_ACTIVATED, FALSE, view, FALSE)
    ELSE IF ~Has(loadLicenseData(view, pw))
    THEN Outcome(INVALID_KEY, FALSE, clearLicenseDataPost(view), TRUE)
    ELSE IF serverResult.offline
    THEN handleOfflineValidation(view, t)
    ELSE
    LET cached == saveServerCache(view, serverResult, t)
    IN  IF serverResult.valid
        THEN Outcome(VALID, FALSE, cached, TRUE)
        ELSE IF serverResult.revoked
        THEN Outcome(REVOKED, FALSE, cached, TRUE)
        ELSE IF ~serverResult.activated
        THEN Outcome(NOT_ACTIVATED, FALSE, clearLicenseDataPost(cached), TRUE)
        ELSE Outcome(INVALID_KEY, FALSE, cached, TRUE)

\* LicenseManager.validateLicense of the post-binding build; serverResult is
\* what serverClient.validateLicense resolved to
validateLicensePost(view, pw, t, serverResult) ==
    IF ~hasLicense(view)
    THEN Outcome(NOT_ACTIVATED, FALSE, view, FALSE)
    ELSE IF ~Has(loadLicenseData(view, pw))
    THEN Outcome(INVALID_KEY, FALSE, clearLicenseDataPost(view), TRUE)
    ELSE IF serverResult.offline
    THEN handleOfflineValidation(view, t)
    ELSE
    LET cached == saveServerCache(view, serverResult, t)
    IN  IF serverResult.revoked
        THEN Outcome(REVOKED, FALSE, cached, TRUE)
        ELSE IF serverResult.valid
        THEN Outcome(VALID, FALSE, cached, TRUE)
        ELSE IF ~serverResult.activated
        THEN Outcome(NOT_ACTIVATED, FALSE, clearLicenseDataPost(cached), TRUE)
        ELSE Outcome(INVALID_KEY, FALSE, cached, TRUE)

\* LicenseManager.validateLicense of the post-binding build from the await
\* on: the record was loaded before the request was sent and is not looked
\* at again
validateLicenseResumed(view, t, serverResult) ==
    IF serverResult.offline
    THEN handleOfflineValidation(view, t)
    ELSE
    LET cached == saveServerCache(view, serverResult, t)
    IN  IF serverResult.revoked
        THEN Outcome(REVOKED, FALSE, cached, TRUE)
        ELSE IF serverResult.valid
        THEN Outcome(VALID, FALSE, cached, TRUE)
        ELSE IF ~serverResult.activated
        THEN Outcome(NOT_ACTIVATED, FALSE, clearLicenseDataPost(cached), TRUE)
        ELSE Outcome(INVALID_KEY, FALSE, cached, TRUE)

\* an activateLicense that saves the record and leaves the verdict cache
\* to the next validate()
activateLicensePost_NoCache(view, pw, hw, t, licenseKey, serverSuccess) ==
    LET keyValidation == KeyCheckPost[licenseKey]
    IN  IF keyValidation.error = ErrTypeError
        THEN Outcome(THROWN, FALSE, view, FALSE)
        ELSE IF ~keyValidation.valid
        THEN Outcome(keyValidation.error, FALSE, view, FALSE)
        ELSE IF ~serverSuccess
        THEN Outcome("Aktivasi gagal.", FALSE, view, FALSE)
        ELSE Outcome("Lisensi berhasil diaktifkan!", TRUE,
                     saveLicenseDataPost(view, pw, toUpperCase(licenseKey), hw,
                                         keyValidation.productCode),
                     TRUE)

\* an activateLicense that saves the record before it hears from the server
activateLicensePost_SaveFirst(view, pw, hw, t, licenseKey, serverSuccess) ==
    LET keyValidation == KeyCheckPost[licenseKey]
        saved == saveLicenseDataPost(view, pw, toUpperCase(licenseKey), hw,
                                     keyValidation.productCode)
    IN  IF keyValidation.error = ErrTypeError
        THEN Outcome(THROWN, FALSE, view, FALSE)
        ELSE IF ~keyValidation.valid
        THEN Outcome(keyValidation.error, FALSE, view, FALSE)
        ELSE IF ~serverSuccess
        THEN Outcome("Aktivasi gagal.", FALSE, saved, TRUE)
        ELSE Outcome("Lisensi berhasil diaktifkan!", TRUE,
                     saveServerCache(
                         saved,
                         [valid |-> TRUE, revoked |-> FALSE,
                          offlineToleranceHours |-> Some(OFFLINE_TOLERANCE_HOURS)],
                         t),
                     TRUE)

\* LicenseManager.activateLicense of the post-binding build; serverSuccess is
\* serverResult.success of serverClient.activateLicense
activateLicensePost(view, pw, hw, t, licenseKey, serverSuccess) ==
    LET keyValidation == KeyCheckPost[licenseKey]
    IN  IF keyValidation.error = ErrTypeError
        THEN Outcome(THROWN, FALSE, view, FALSE)
        ELSE IF ~keyValidation.valid
        THEN Outcome(keyValidation.error, FALSE, view, FALSE)
        ELSE IF ~serverSuccess
        THEN Outcome("Aktivasi gagal.", FALSE, view, FALSE)
        ELSE Outcome("Lisensi berhasil diaktifkan!", TRUE,
                     saveServerCache(
                         saveLicenseDataPost(view, pw, toUpperCase(licenseKey), hw,
                                             keyValidation.productCode),
                         [valid |-> TRUE, revoked |-> FALSE,
                          offlineToleranceHours |-> Some(OFFLINE_TOLERANCE_HOURS)],
                         t),
                     TRUE)

\* LicenseManager.deactivateLicense of the post-binding build
deactivateLicensePost(view) ==
    Outcome("Lisensi berhasil dihapus dari perangkat ini.", TRUE,
            clearLicenseDataPost(view), TRUE)

(***************************************************************************)
(* The inputs of the model                                                 *)
(***************************************************************************)
MaxServerTolerance == 1

Modes == {"pre", "post"}

\* the clock values, as offsets from BaseTime: around the expiry of the
\* keys, the end of its last day, the grace window and the tolerances
ClockOffsets(m) ==
    IF m = "pre" THEN {-2, 0, 1, 23, 24, 168, 169, 191, 192}
    ELSE {0, 1, 24, 25}

ClockPoints(m) == {BaseTime + d : d \in ClockOffsets(m)}

\* what the license server can answer to GET /api/license/validate/{id}
ServerResponses ==
    [valid : BOOLEAN, activated : BOOLEAN, revoked : BOOLEAN,
     offlineToleranceHours : {None, Some(0), Some(MaxServerTolerance)}]

ServerResults == {Offline} \cup {ServerAnswer(r) : r \in ServerResponses}

\* licenseData values somebody else than the engine can put in the store
\* file: bytes that no longer authenticate (flipped or cut off), and a
\* record of another machine re-encrypted under this machine's password;
\* for the post-binding build also a blob encrypted under another password
\* and one whose plaintext is not JSON
TamperedBlobs(m, pw) ==
    LET other == generateHardwareId(CHOOSE x \in Machines : generateHardwareId(x) # pw)
        record == IF m = "pre" THEN RecordPre(KeyPreA, BaseTime, other)
                  ELSE RecordPost(KeyPostVC, other, Some(PRODUCT_CODE_POST))
    IN  {[encrypt(record, pw) EXCEPT !.intact = FALSE], encrypt(record, pw)}
        \cup (IF m = "post"
              THEN {encrypt(record, other),
                    [encrypt(record, pw) EXCEPT !.json = FALSE]}
              ELSE {})

NoCall ==
    [op |-> "none", status |-> "", success |-> FALSE, key |-> <<>>,
     server |-> Offline, serverSuccess |-> FALSE, asked |-> FALSE]

Call(op, out, key, server, serverSuccess, asked) ==
    [op |-> op, status |-> out.status, success |-> out.success, key |-> key,
     server |-> server, serverSuccess |-> serverSuccess, asked |-> asked]

\* products.js of the admin tool: code and secret of every product
SECRET_KEY_BLM == 4
PRODUCT_CODE_BLM == <<1, 11, 26, 27>>          \* 'BL01'

ProductIds == {"bms", "vcomm", "blm"}

PRODUCTS ==
    [p \in ProductIds |->
        CASE p = "bms"   -> [code |-> PRODUCT_CODE_BMS, secretKey |-> SECRET_KEY_BMS]
          [] p = "vcomm" -> [code |-> PRODUCT_CODE_POST, secretKey |-> SECRET_KEY_POST]
          [] p = "blm"   -> [code |-> PRODUCT_CODE_BLM, secretKey |-> SECRET_KEY_BLM]]

\* no request to the license server is under way
NoRequest == [phase |-> "idle", op |-> "none", key |-> <<>>, via |-> "none"]

\* how many calls can await an answer at once, and how many calls the model
\* lets overlap before all of them have returned
MaxCalls == 2
MaxRoundCalls == 3

Slots == 1 .. MaxCalls

FreeSlot == [op |-> "none", key |-> <<>>, phase |-> "free", answer |-> <<>>]

NoCalls == [s \in Slots |-> FreeSlot]

\* the server knows no activation of this machine and no revocation
NoAuthority == [activated |-> FALSE, revoked |-> FALSE]

NoRound ==
    [view |-> EmptyStore, authority |-> NoAuthority, calls |-> <<>>,
     admin |-> FALSE, newest |-> <<>>]

\* the fields of a LicenseManager after its constructor
NullManager == [currentStatus |-> None, licenseData |-> None]

\* the host before app.whenReady(): no window; license is what the last
\* call told about the license, a status or ACTIVATED
ACTIVATED == "activated"

NoHost ==
    [phase |-> "starting", mainWindow |-> FALSE, licenseWindow |-> FALSE,
     license |-> ""]

\* the codec has handled no key
NoCodec ==
    [op |-> "none", key |-> <<>>, expiryDate |-> None, hardwareId |-> <<>>,
     product |-> "", from |-> <<>>,
     verdictPre |-> KeyResultPre(FALSE, None, None, ErrNone),
     verdictPost |-> [p \in ProductIds |-> KeyResultPost(FALSE, None, ErrNone)]]

(***************************************************************************)
(* The state machine                                                       *)
(***************************************************************************)
InitIn(m) ==
    /\ mode = m
    /\ now = BaseTime
    /\ machine = "A"
    /\ cachedHardwareId = None
    /\ initialized = FALSE
    /\ encryptionPassword = None
    /\ fileKey = None
    /\ file = EmptyStore
    /\ last = NoCall
    /\ chain = 0
    /\ codec = NoCodec
    /\ request = NoRequest
    /\ manager = NullManager
    /\ host = NoHost
    /\ backup = None
    /\ inflight = NoCalls
    /\ authority = NoAuthority
    /\ round = NoRound

Init == \E m \in Modes : InitIn(m)

\* the store as the running (or starting) process reads it
View == StoreView(StoragePassword)

\* the store after a call: written back under the password when the call
\* set or deleted a key, untouched otherwise
Commit(out) ==
    IF out.wrote THEN WriteStore(StoragePassword, out.view)
    ELSE UNCHANGED <<fileKey, file>>

\* the user or the system sets the clock, forward or backward
SetClock(t) ==
    /\ UNCHANGED <<codec, request, manager, host, backup,
                   inflight, authority, round>>
    /\ t # now
    /\ now' = t
    /\ last' = NoCall
    /\ chain' = IF t < now \/ chain = 3 THEN 0 ELSE chain
    /\ UNCHANGED <<mode, machine, cachedHardwareId, initialized,
                   encryptionPassword, fileKey, file>>

\* the application is closed and started again
Restart ==
    /\ UNCHANGED <<codec, request, manager, host, backup,
                   inflight, authority, round>>
    /\ initialized \/ Has(cachedHardwareId)
    /\ cachedHardwareId' = None
    /\ initialized' = FALSE
    /\ encryptionPassword' = None
    /\ last' = NoCall
    /\ chain' = IF chain = 3 THEN 0 ELSE chain
    /\ UNCHANGED <<mode, now, machine, fileKey, file>>

\* the hardware changes, or the installation and its store file are copied
\* to another machine
MoveInstallation(m) ==
    /\ UNCHANGED <<codec, request, manager, host, backup,
                   inflight, authority, round>>
    /\ m # machine
    /\ machine' = m
    /\ last' = NoCall
    /\ chain' = 0
    /\ UNCHANGED <<mode, now, cachedHardwareId, initialized,
                   encryptionPassword, fileKey, file>>

\* somebody edits the licenseData entry of the store file
TamperLicenseData(b) ==
    /\ UNCHANGED <<codec, request, manager, host, backup,
                   inflight, authority, round>>
    /\ Has(fileKey)
    /\ file.licenseData # Some(b)
    /\ file' = [file EXCEPT !.licenseData = Some(b)]
    /\ last' = NoCall
    /\ chain' = 0
    /\ UNCHANGED <<mode, now, machine, cachedHardwareId, initialized,
                   encryptionPassword, fileKey>>

ValidatePreReturns ==
    /\ mode = "pre"
    /\ LET view == StoreView(StoragePassword)
           out == validateLicensePre(view, StoragePassword, getHardwareId, now)
       IN  /\ Commit(out)
           /\ last' = Call("validate", out, <<>>, Offline, FALSE, FALSE)
    /\ chain' = IF chain = 2 THEN 3 ELSE 0
    /\ EnsureInitialized
    /\ UNCHANGED <<mode, now, machine>>

ValidatePre ==
    /\ UNCHANGED <<codec, request, manager, host, backup,
                   inflight, authority, round>>
    /\ ValidatePreReturns

ActivatePreReturns(k) ==
    /\ mode = "pre"
    /\ LET view == StoreView(StoragePassword)
           out == activateLicensePre(view, StoragePassword, getHardwareId, now, k)
       IN  /\ Commit(out)
           /\ last' = Call("activate", out, k, Offline, FALSE, FALSE)
           /\ chain' = IF out.success THEN 1 ELSE 0
    /\ EnsureInitialized
    /\ UNCHANGED <<mode, now, machine>>

ActivatePre(k) ==
    /\ UNCHANGED <<codec, request, manager, host, backup,
                   inflight, authority, round>>
    /\ ActivatePreReturns(k)

DeactivatePreReturns ==
    /\ mode = "pre"
    /\ LET view == StoreView(StoragePassword)
           out == deactivateLicensePre(view)
       IN  /\ Commit(out)
           /\ last' = Call("deactivate", out, <<>>, Offline, FALSE, FALSE)
    /\ chain' = IF chain = 1 THEN 2 ELSE 0
    /\ EnsureInitialized
    /\ UNCHANGED <<mode, now, machine>>

DeactivatePre ==
    /\ UNCHANGED <<codec, request, manager, host, backup,
                   inflight, authority, round>>
    /\ DeactivatePreReturns

\* validate() of the post-binding build; the request is sent only when a
\* record was loaded, and serverResult is what it resolved to
ValidateReturns(serverResult) ==
    /\ mode = "post"
    /\ LET view == StoreView(StoragePassword)
           asked == Has(loadLicenseData(view, StoragePassword))
           out == validateLicensePost(view, StoragePassword, now, serverResult)
       IN  /\ asked \/ serverResult = Offline
           /\ Commit(out)
           /\ last' = Call("validate", out, <<>>, serverResult, FALSE, asked)
    /\ chain' = IF chain = 2 THEN 3 ELSE 0
    /\ EnsureInitialized
    /\ UNCHANGED <<mode, now, machine>>

ValidatePost(serverResult) ==
    /\ UNCHANGED <<codec, request, manager, host, backup,
                   inflight, authority, round>>
    /\ ValidateReturns(serverResult)

\* activate(key) of the post-binding build; the server is asked only for a
\* key of valid format and answers success or not (a refusal, an error
\* status and an unreachable server all resolve to success = false)
ActivateReturns(k, serverSuccess) ==
    /\ mode = "post"
    /\ LET view == StoreView(StoragePassword)
           asked == KeyCheckPost[k].valid
           out == activateLicensePost(view, StoragePassword, getHardwareId, now,
                                      k, serverSuccess)
       IN  /\ asked \/ ~serverSuccess
           /\ Commit(out)
           /\ last' = Call("activate", out, k, Offline, serverSuccess, asked)
           /\ chain' = IF out.success THEN 1 ELSE 0
    /\ EnsureInitialized
    /\ UNCHANGED <<mode, now, machine>>

ActivatePost(k, serverSuccess) ==
    /\ UNCHANGED <<codec, request, manager, host, backup,
                   inflight, authority, round>>
    /\ ActivateReturns(k, serverSuccess)

DeactivatePostReturns ==
    /\ mode = "post"
    /\ LET view == StoreView(StoragePassword)
           out == deactivateLicensePost(view)
       IN  /\ Commit(out)
           /\ last' = Call("deactivate", out, <<>>, Offline, FALSE, FALSE)
    /\ chain' = IF chain = 1 THEN 2 ELSE 0
    /\ EnsureInitialized
    /\ UNCHANGED <<mode, now, machine>>

DeactivatePost ==
    /\ UNCHANGED <<codec, request, manager, host, backup,
                   inflight, authority, round>>
    /\ DeactivatePostReturns

\* what happens around the engine
Environment ==
    \/ \E t \in ClockPoints(mode) : SetClock(t)
    \/ Restart
    \/ \E m \in Machines : MoveInstallation(m)
    \/ \E b \in TamperedBlobs(mode, getHardwareId) : TamperLicenseData(b)

NextPre ==
    \/ Environment
    \/ ValidatePre
    \/ \E k \in KeysPre : ActivatePre(k)
    \/ DeactivatePre

NextPost ==
    \/ Environment
    \/ \E r \in ServerResults : ValidatePost(r)
    \/ \E k \in KeysPost, ok \in BOOLEAN : ActivatePost(k, ok)
    \/ DeactivatePost

Next == NextPre \/ NextPost

\* both builds, each behaviour being of one build
Spec == Init /\ [][Next]_vars

\* the pre-binding build alone
SpecPre == InitIn("pre") /\ [][NextPre]_vars

\* the post-binding build alone
SpecPost == InitIn("post") /\ [][NextPost]_vars

(***************************************************************************)
(* license-crypto.js and the key generators on their own: keys are         *)
(* generated, altered and validated                                        *)
(***************************************************************************)
\* expiry dates handed to the generator: the first day of 2020 and a day of
\* its first week, a whole number of 10-day units, one day and one hour less
\* than ten days after it, and the first day of 2100
ExpiryDates ==
    {MIN_DATE, MIN_DATE + 5 * HOURS_PER_DAY, BaseTime, BaseTime + HOURS_PER_DAY,
     BaseTime + HOURS_PER_EXPIRY_UNIT - 1, MAX_DATE}

\* hardware ids handed to the generator: two fingerprints and an id of
\* exactly 8 characters in lower case
HardwareIds ==
    {generateHardwareId("A"), generateHardwareId("C"), Lower(HexPrefix1)}

\* crypto.randomBytes(2).readUInt16BE()
RandomWords == {0, 65535}

\* generateRandomSegment(2) and generateRandomSegment(4)
RandomPairs == {<<23, 30>>, <<0, 35>>}
RandomQuad == <<12, 27, 25, 33>>

\* the key the codec has handled and what every validator says about it
Handled(op, key, expiryDate, hardwareId, product, from) ==
    [op |-> op, key |-> key, expiryDate |-> expiryDate, hardwareId |-> hardwareId,
     product |-> product, from |-> from,
     verdictPre |-> validateLicenseKeyPre(key),
     verdictPost |-> [p \in ProductIds |->
                        validateLicenseKeyFor(PRODUCTS[p].code,
                                              PRODUCTS[p].secretKey, key)]]

\* the key is accepted by the validator of the build it was generated for
Accepted(c) ==
    IF c.product = "eyesee" THEN c.verdictPre.valid
    ELSE c.product \in ProductIds /\ c.verdictPost[c.product].valid

\* generateLicenseKey(expiryDate, hardwareId) of the pre-binding build, then
\* validateLicenseKey
GeneratePre(expiryDate, hardwareId, random1, random2) ==
    /\ codec = NoCodec
    /\ codec' = Handled("generate",
                        generateLicenseKeyPre(expiryDate, hardwareId,
                                              random1, random2),
                        Some(expiryDate), hardwareId, "eyesee", <<>>)
    /\ UNCHANGED <<mode, now, machine, cachedHardwareId, initialized,
                   encryptionPassword, fileKey, file, last, chain, request,
                   manager, host, backup,
                   inflight, authority, round>>

\* generateLicenseKey(productId) of the admin tool, then validateLicenseKey
\* of every product build
GeneratePost(p, rnd1, rnd2) ==
    /\ codec = NoCodec
    /\ codec' = Handled("generate",
                        generateLicenseKeyPost(PRODUCTS[p].code,
                                               PRODUCTS[p].secretKey,
                                               rnd1, rnd2, RandomQuad),
                        None, <<>>, p, <<>>)
    /\ UNCHANGED <<mode, now, machine, cachedHardwareId, initialized,
                   encryptionPassword, fileKey, file, last, chain, request,
                   manager, host, backup,
                   inflight, authority, round>>

\* somebody replaces character i of the last segment of an accepted key by
\* another character of the alphabet
ReplaceChecksumChar(i, c) ==
    /\ codec.op = "generate"
    /\ Accepted(codec)
    /\ LET at == Len(codec.key) - SEGMENT_LENGTH + i
       IN  /\ codec.key[at] # c
           /\ codec' = Handled("replaceChecksum", [codec.key EXCEPT ![at] = c],
                               codec.expiryDate, codec.hardwareId,
                               codec.product, codec.key)
    /\ UNCHANGED <<mode, now, machine, cachedHardwareId, initialized,
                   encryptionPassword, fileKey, file, last, chain, request,
                   manager, host, backup,
                   inflight, authority, round>>

\* the secret of the build a key was generated for
SecretOf(product) ==
    IF product = "eyesee" THEN SECRET_KEY_PRE ELSE PRODUCTS[product].secretKey

\* the product code found in a well-formed key
EmbeddedCode(key) ==
    LET segments == split(toUpperCase(trim(key)))
    IN  substring(segments[1], 2, 4) \o substring(segments[2], 0, 2)

\* somebody writes another product code into a generated key, and either
\* leaves the last segment as it was or computes it again with the secret
ReplaceProductCode(code, resign) ==
    /\ codec.op = "generate"
    /\ code # EmbeddedCode(codec.key)
    /\ LET segments == split(codec.key)
           n == Len(segments)
           seg1 == substring(segments[1], 0, 2) \o substring(code, 0, 2)
           seg2 == substring(code, 2, 4) \o substring(segments[2], 2, 4)
           body == <<seg1, seg2>> \o SubSeq(segments, 3, n - 1)
           dataToCheck == [i \in 1..(SEGMENT_LENGTH * (n - 1)) |->
                              body[((i - 1) \div SEGMENT_LENGTH) + 1]
                                  [((i - 1) % SEGMENT_LENGTH) + 1]]
           checksum == IF resign
                       THEN generateChecksum(SecretOf(codec.product), dataToCheck)
                       ELSE segments[n]
       IN  codec' = Handled("replaceProduct", join(Append(body, checksum)),
                            codec.expiryDate, codec.hardwareId,
                            codec.product, codec.key)
    /\ UNCHANGED <<mode, now, machine, cachedHardwareId, initialized,
                   encryptionPassword, fileKey, file, last, chain, request,
                   manager, host, backup,
                   inflight, authority, round>>

\* the key is put aside
Forget ==
    /\ codec # NoCodec
    /\ codec' = NoCodec
    /\ UNCHANGED <<mode, now, machine, cachedHardwareId, initialized,
                   encryptionPassword, fileKey, file, last, chain, request,
                   manager, host, backup,
                   inflight, authority, round>>

\* product codes somebody can write into a key
ProductCodes == {PRODUCTS[p].code : p \in ProductIds} \cup {PRODUCT_CODE_PRE}

\* the clock while the codec is used: at the start, and later than the
\* expiry of every key generated for the present
CodecClockPoints == {BaseTime, BaseTime + 10 * HOURS_PER_EXPIRY_UNIT}

NextCodec ==
    \/ \E t \in CodecClockPoints : SetClock(t)
    \/ \E e \in ExpiryDates, h \in HardwareIds, r1, r2 \in RandomWords :
           GeneratePre(e, h, r1, r2)
    \/ \E p \in ProductIds, r1, r2 \in RandomPairs : GeneratePost(p, r1, r2)
    \/ \E i \in 1..SEGMENT_LENGTH, c \in CHARSET : ReplaceChecksumChar(i, c)
    \/ \E code \in ProductCodes, resign \in BOOLEAN :
           ReplaceProductCode(code, resign)
    \/ Forget

\* the codec alone
SpecCodec == InitIn("codec") /\ [][NextCodec]_vars

(***************************************************************************)
(* The post-binding build with its requests in flight: a call that needs   *)
(* the server sends its request and returns when the request settles.      *)
(***************************************************************************)
\* keys handed to activate() here: the sample keys and a value that is not a
\* string
KeysServer == KeysPost \cup {NotAString}

Waiting(op, key) == [phase |-> "waiting", op |-> op, key |-> key, via |-> "none"]

Settled(event) == [request EXCEPT !.phase = "idle", !.via = event]

\* validate() that finds no record to ask the server about
ValidateLocally ==
    /\ request.phase = "idle"
    /\ ~Has(loadLicenseData(View, StoragePassword))
    /\ ValidateReturns(Offline)
    /\ request' = NoRequest
    /\ UNCHANGED <<codec, manager, host, backup,
                   inflight, authority, round>>

\* validate() that loaded a record: GET /api/license/validate/<hardwareId>
SendValidate ==
    /\ request.phase = "idle"
    /\ mode = "post"
    /\ Has(loadLicenseData(View, StoragePassword))
    /\ request' = Waiting("validate", <<>>)
    /\ last' = NoCall
    /\ EnsureInitialized
    /\ UNCHANGED <<mode, now, machine, fileKey, file, chain, codec,
                   manager, host, backup,
                   inflight, authority, round>>

\* activate(key) that ends at the key check
ActivateLocally(k) ==
    /\ request.phase = "idle"
    /\ ~KeyCheckPost[k].valid
    /\ ActivateReturns(k, FALSE)
    /\ request' = NoRequest
    /\ UNCHANGED <<codec, manager, host, backup,
                   inflight, authority, round>>

\* activate(key) with a key of valid format: POST /api/license/activate
SendActivate(k) ==
    /\ request.phase = "idle"
    /\ mode = "post"
    /\ KeyCheckPost[k].valid
    /\ request' = Waiting("activate", k)
    /\ last' = NoCall
    /\ EnsureInitialized
    /\ UNCHANGED <<mode, now, machine, fileKey, file, chain, codec,
                   manager, host, backup,
                   inflight, authority, round>>

DeactivateServer ==
    /\ request.phase = "idle"
    /\ DeactivatePost

\* the request settles and the waiting call returns; while the promise is
\* pending nothing happens
Settle(event, body) ==
    LET settlement == makeRequest(event, body)
    IN  /\ request.phase = "waiting"
        /\ IF ~settlement.settled THEN UNCHANGED vars
           ELSE /\ request' = Settled(event)
                /\ UNCHANGED <<codec, manager, host, backup,
                   inflight, authority, round>>
                /\ IF request.op = "validate"
                   THEN ValidateReturns(clientValidateLicense(settlement))
                   ELSE ActivateReturns(request.key,
                            clientActivateLicense(settlement).success)

ServerAnswersValidate(response) ==
    /\ request.op = "validate"
    /\ Settle("response", response)

ServerAnswersActivate(success) ==
    /\ request.op = "activate"
    /\ Settle("response", success)

RequestFails(event) ==
    /\ event # "timeout"
    /\ Settle(event, <<>>)

\* requestTimeoutMs pass without a byte from the server
TimeoutFires ==
    /\ request.phase = "waiting"
    /\ Settle("timeout", <<>>)

NextServer ==
    \/ ValidateLocally
    \/ SendValidate
    \/ \E k \in KeysServer : ActivateLocally(k)
    \/ \E k \in KeysServer : SendActivate(k)
    \/ DeactivateServer
    \/ \E response \in ServerResponses : ServerAnswersValidate(response)
    \/ \E success \in BOOLEAN : ServerAnswersActivate(success)
    \/ \E event \in NetworkEvents \ {"response", "timeout"} : RequestFails(event)
    \/ TimeoutFires
    \/ \E t \in ClockPoints("post") : SetClock(t)

\* the timer of a request that is waiting does run out
SpecServer == InitIn("post") /\ [][NextServer]_vars /\ WF_vars(TimeoutFires)

(***************************************************************************)
(* The post-binding build with several calls under way at once: a call     *)
(* runs to its await, other calls run while it waits, and it goes on when  *)
(* its own answer is delivered. The license server keeps what it knows     *)
(* about this machine and answers each request from that; every request is *)
(* answered here, and the answers arrive in any order.                     *)
(***************************************************************************)
AllFree == \A s \in Slots : inflight[s].phase = "free"

MayCall == AllFree \/ Len(round.calls) < MaxRoundCalls

\* GET /api/license/validate/<hardwareId>, answered from what the server
\* holds about the machine
AuthorityVerdict(a) ==
    [valid |-> a.activated /\ ~a.revoked, activated |-> a.activated,
     revoked |-> a.revoked, offlineToleranceHours |-> None]

\* POST /api/license/activate: the server binds the key to the machine
\* unless the license is revoked
AuthorityActivates(a) == ~a.revoked

\* the calls that overlap, with one more: a call made while no other is
\* under way starts the list again
RoundWith(op, key) ==
    IF AllFree
    THEN [view |-> View, authority |-> authority,
          calls |-> <<[op |-> op, key |-> key]>>, admin |-> FALSE,
          newest |-> None]
    ELSE [round EXCEPT !.calls = Append(@, [op |-> op, key |-> key])]

\* validate() goes on after its await with what the client resolved to
ValidateResumes(serverResult) ==
    /\ mode = "post"
    /\ LET out == validateLicenseResumed(View, now, serverResult)
       IN  /\ Commit(out)
           /\ last' = Call("validate", out, <<>>, serverResult, FALSE, TRUE)
    /\ chain' = 0
    /\ UNCHANGED <<mode, now, machine, cachedHardwareId, initialized,
                   encryptionPassword>>

\* validate() that finds no record and returns without a request
ValidateAtOnce ==
    /\ MayCall
    /\ ~Has(loadLicenseData(View, StoragePassword))
    /\ ValidateReturns(Offline)
    /\ round' = RoundWith("validate", <<>>)
    /\ UNCHANGED <<codec, request, manager, host, backup, inflight, authority>>

\* validate() that loaded a record, up to its await
CallValidate(s) ==
    /\ MayCall
    /\ mode = "post"
    /\ inflight[s].phase = "free"
    /\ Has(loadLicenseData(View, StoragePassword))
    /\ inflight' = [inflight EXCEPT ![s] = [op |-> "validate", key |-> <<>>,
                                            phase |-> "sent", answer |-> <<>>]]
    /\ round' = RoundWith("validate", <<>>)
    /\ last' = NoCall
    /\ EnsureInitialized
    /\ UNCHANGED <<mode, now, machine, fileKey, file, chain, codec, request,
                   manager, host, backup, authority>>

\* activate(key) that ends at the key check
ActivateAtOnce(k) ==
    /\ MayCall
    /\ ~KeyCheckPost[k].valid
    /\ ActivateReturns(k, FALSE)
    /\ round' = RoundWith("activate", k)
    /\ UNCHANGED <<codec, request, manager, host, backup, inflight, authority>>

\* activate(key) with a key of valid format, up to its await
CallActivate(s, k) ==
    /\ MayCall
    /\ mode = "post"
    /\ inflight[s].phase = "free"
    /\ KeyCheckPost[k].valid
    /\ inflight' = [inflight EXCEPT ![s] = [op |-> "activate", key |-> k,
                                            phase |-> "sent", answer |-> <<>>]]
    /\ round' = RoundWith("activate", k)
    /\ last' = NoCall
    /\ EnsureInitialized
    /\ UNCHANGED <<mode, now, machine, fileKey, file, chain, codec, request,
                   manager, host, backup, authority>>

\* deactivate() has no await
DeactivateAtOnce ==
    /\ MayCall
    /\ DeactivatePostReturns
    /\ round' = RoundWith("deactivate", <<>>)
    /\ UNCHANGED <<codec, request, manager, host, backup, inflight, authority>>

\* the server takes a request and produces its answer
AuthorityAnswers(s) ==
    /\ inflight[s].phase = "sent"
    /\ IF inflight[s].op = "validate"
       THEN /\ inflight' = [inflight EXCEPT
                               ![s].phase = "answered",
                               ![s].answer = Some(AuthorityVerdict(authority))]
            /\ authority' = authority
            /\ round' = [round EXCEPT !.newest = Some(AuthorityVerdict(authority))]
       ELSE /\ inflight' = [inflight EXCEPT
                               ![s].phase = "answered",
                               ![s].answer = Some(AuthorityActivates(authority))]
            /\ authority' = IF AuthorityActivates(authority)
                            THEN [authority EXCEPT !.activated = TRUE]
                            ELSE authority
            /\ round' = round
    /\ UNCHANGED <<mode, now, machine, cachedHardwareId, initialized,
                   encryptionPassword, fileKey, file, last, chain, codec,
                   request, manager, host, backup>>

\* an answer reaches the client and the call that awaits it goes on
Delivered(s) ==
    /\ inflight[s].phase = "answered"
    /\ inflight' = [inflight EXCEPT ![s] = FreeSlot]
    /\ IF inflight[s].op = "validate"
       THEN ValidateResumes(ServerAnswer(Val(inflight[s].answer)))
       ELSE ActivateReturns(inflight[s].key, Val(inflight[s].answer))
    /\ UNCHANGED <<codec, request, manager, host, backup, authority, round>>

\* the administrator revokes the license on the server
AdminRevokes ==
    /\ ~authority.revoked
    /\ authority' = [authority EXCEPT !.revoked = TRUE]
    /\ round' = [round EXCEPT !.admin = @ \/ ~AllFree]
    /\ UNCHANGED <<mode, now, machine, cachedHardwareId, initialized,
                   encryptionPassword, fileKey, file, last, chain, codec,
                   request, manager, host, backup, inflight>>

\* the administrator removes the activation of this machine on the server
AdminReleases ==
    /\ authority.activated
    /\ authority' = [authority EXCEPT !.activated = FALSE]
    /\ round' = [round EXCEPT !.admin = @ \/ ~AllFree]
    /\ UNCHANGED <<mode, now, machine, cachedHardwareId, initialized,
                   encryptionPassword, fileKey, file, last, chain, codec,
                   request, manager, host, backup, inflight>>

NextOverlap ==
    \/ ValidateAtOnce
    \/ \E s \in Slots : CallValidate(s)
    \/ \E k \in KeysServer : ActivateAtOnce(k)
    \/ \E s \in Slots : \E k \in KeysServer : CallActivate(s, k)
    \/ DeactivateAtOnce
    \/ \E s \in Slots : AuthorityAnswers(s)
    \/ \E s \in Slots : Delivered(s)
    \/ AdminRevokes
    \/ AdminReleases

SpecOverlap == InitIn("post") /\ [][NextOverlap]_vars

\* one call made when no other is under way, on the store and the server it
\* finds: the store and the server it leaves
SequentialCall(st, call) ==
    IF call.op = "validate"
    THEN [view |-> validateLicensePost(st.view, StoragePassword, now,
                       ServerAnswer(AuthorityVerdict(st.authority))).view,
          authority |-> st.authority]
    ELSE IF call.op = "activate"
    THEN LET success == KeyCheckPost[call.key].valid
                        /\ AuthorityActivates(st.authority)
         IN  [view |-> activateLicensePost(st.view, StoragePassword,
                           getHardwareId, now, call.key, success).view,
              authority |-> IF success
                            THEN [st.authority EXCEPT !.activated = TRUE]
                            ELSE st.authority]
    ELSE [view |-> deactivateLicensePost(st.view).view,
          authority |-> st.authority]

\* the calls made one after the other in the order f, from st on
RECURSIVE SequentialRun(_, _, _, _)
SequentialRun(st, calls, f, i) ==
    IF i > Len(calls) THEN st
    ELSE SequentialRun(SequentialCall(st, calls[f[i]]), calls, f, i + 1)

\* the stores that the calls of the round leave in some order one after the
\* other
SequentialOutcomes ==
    LET n == Len(round.calls)
        orders == {f \in [1 .. n -> 1 .. n] : \A i, j \in 1 .. n : f[i] = f[j] => i = j}
    IN  {SequentialRun([view |-> round.view, authority |-> round.authority],
                       round.calls, f, 1).view : f \in orders}

(***************************************************************************)
(* The host main process (main.js) around the manager: initializeApp, the  *)
(* IPC handlers the license dialog reaches, and the manager's own fields.  *)
(***************************************************************************)
\* a validateLicense that answers from this.currentStatus once it is set
ManagerValidatePre_FromMemory(self, view, pw, hw, t) ==
    LET out == validateLicensePre(view, pw, hw, t)
    IN  IF Has(self.currentStatus)
        THEN [out |-> Outcome(Val(self.currentStatus), FALSE, view, FALSE),
              self |-> self]
        ELSE [out |-> out,
              self |-> [currentStatus |-> Some(out.status),
                        licenseData |-> loadLicenseData(view, pw)]]

\* validateLicense of the pre-binding manager with the fields of the
\* instance: this.licenseData is set once the record is loaded,
\* this.currentStatus when the call gets to the expiry check
ManagerValidatePre(self, view, pw, hw, t) ==
    LET out == validateLicensePre(view, pw, hw, t)
    IN  [out |-> out,
         self |-> [currentStatus |->
                       IF out.status \in {VALID, GRACE_PERIOD, EXPIRED}
                       THEN Some(out.status) ELSE self.currentStatus,
                   licenseData |->
                       IF out.status \in {HARDWARE_MISMATCH, VALID, GRACE_PERIOD,
                                          EXPIRED}
                       THEN loadLicenseData(view, pw) ELSE self.licenseData]]

\* validateLicense of the post-binding manager with the fields of the
\* instance: this.licenseData is set once the record is loaded
ManagerValidatePost(self, view, pw, t, serverResult) ==
    LET out == validateLicensePost(view, pw, t, serverResult)
    IN  [out |-> out,
         self |-> [self EXCEPT !.licenseData =
                       IF Has(loadLicenseData(view, pw))
                       THEN loadLicenseData(view, pw) ELSE self.licenseData]]

\* deactivateLicense: this.licenseData = null, this.currentStatus = NOT_ACTIVATED
ManagerDeactivate(self) ==
    [currentStatus |-> Some(NOT_ACTIVATED), licenseData |-> None]

\* the statuses initializeApp opens the main window on
LicensedStatuses ==
    IF mode = "pre" THEN {VALID, GRACE_PERIOD} ELSE {VALID, OFFLINE_VALID}

\* the statuses initializeApp quits on
QuitStatuses == IF mode = "pre" THEN {} ELSE {REVOKED, OFFLINE_EXPIRED}

\* the switch of initializeApp
AfterInitialize(status) ==
    IF status \in LicensedStatuses
    THEN [phase |-> "running", mainWindow |-> TRUE, licenseWindow |-> FALSE,
          license |-> status]
    ELSE IF status \in QuitStatuses
    THEN [phase |-> "quit", mainWindow |-> FALSE, licenseWindow |-> FALSE,
          license |-> status]
    ELSE [phase |-> "running", mainWindow |-> FALSE, licenseWindow |-> TRUE,
          license |-> status]

\* initializeApp of the pre-binding host: validateLicense(), then
\* isLicensed(), which validates once more
InitializeAppPre ==
    /\ mode = "pre"
    /\ host.phase = "starting"
    /\ LET first == ManagerValidatePre(manager, View, StoragePassword,
                                       getHardwareId, now)
           second == ManagerValidatePre(first.self, first.out.view,
                                        StoragePassword, getHardwareId, now)
           out == [second.out EXCEPT !.wrote = first.out.wrote \/ second.out.wrote]
       IN  /\ Commit(out)
           /\ last' = Call("validate", out, <<>>, Offline, FALSE, FALSE)
           /\ manager' = second.self
           /\ host' = AfterInitialize(out.status)
    /\ chain' = 0
    /\ EnsureInitialized
    /\ UNCHANGED <<mode, now, machine, codec, request, backup,
                   inflight, authority, round>>

\* initializeApp of the post-binding host
InitializeAppPost(serverResult) ==
    /\ mode = "post"
    /\ host.phase = "starting"
    /\ LET asked == Has(loadLicenseData(View, StoragePassword))
           call == ManagerValidatePost(manager, View, StoragePassword, now,
                                       serverResult)
       IN  /\ asked \/ serverResult = Offline
           /\ Commit(call.out)
           /\ last' = Call("validate", call.out, <<>>, serverResult, FALSE, asked)
           /\ manager' = call.self
           /\ host' = AfterInitialize(call.out.status)
    /\ chain' = 0
    /\ EnsureInitialized
    /\ UNCHANGED <<mode, now, machine, codec, request, backup,
                   inflight, authority, round>>

\* ipcMain.handle('get-license-info'): getLicenseInfo validates
IpcGetLicenseInfo(serverResult) ==
    /\ host.phase = "running"
    /\ host.licenseWindow \/ host.mainWindow
    /\ LET asked == mode = "post" /\ Has(loadLicenseData(View, StoragePassword))
           call == IF mode = "pre"
                   THEN ManagerValidatePre(manager, View, StoragePassword,
                                           getHardwareId, now)
                   ELSE ManagerValidatePost(manager, View, StoragePassword, now,
                                            serverResult)
       IN  /\ asked \/ serverResult = Offline
           /\ Commit(call.out)
           /\ last' = Call("validate", call.out, <<>>, serverResult, FALSE, asked)
           /\ manager' = call.self
           /\ host' = [host EXCEPT !.license = call.out.status]
    /\ chain' = 0
    /\ EnsureInitialized
    /\ UNCHANGED <<mode, now, machine, codec, request, backup,
                   inflight, authority, round>>

\* ipcMain.handle('activate-license') from the license dialog
IpcActivateLicense(k, serverSuccess) ==
    /\ host.phase = "running"
    /\ host.licenseWindow
    /\ IF mode = "pre" THEN ~serverSuccess /\ ActivatePreReturns(k)
       ELSE ActivateReturns(k, serverSuccess)
    /\ host' = [host EXCEPT !.license = IF last'.success THEN ACTIVATED ELSE @]
    /\ UNCHANGED <<codec, request, manager, backup,
                   inflight, authority, round>>

\* ipcMain.handle('deactivate-license')
IpcDeactivateLicense ==
    /\ host.phase = "running"
    /\ host.licenseWindow \/ host.mainWindow
    /\ IF mode = "pre" THEN DeactivatePreReturns ELSE DeactivatePostReturns
    /\ manager' = ManagerDeactivate(manager)
    /\ host' = [host EXCEPT !.license = NOT_ACTIVATED]
    /\ UNCHANGED <<codec, request, backup,
                   inflight, authority, round>>

\* the 'license-activated' message: close the license window, create the
\* main window
IpcLicenseActivated ==
    /\ host.phase = "running"
    /\ host.licenseWindow
    /\ host' = [host EXCEPT !.licenseWindow = FALSE, !.mainWindow = TRUE]
    /\ UNCHANGED <<mode, now, machine, cachedHardwareId, initialized,
                   encryptionPassword, fileKey, file, last, chain, codec, request,
                   manager, backup,
                   inflight, authority, round>>

\* the user closes the license window: licenseWindow.on('closed') quits the
\* application when there is no main window
CloseLicenseWindow ==
    /\ host.phase = "running"
    /\ host.licenseWindow
    /\ host' = [host EXCEPT !.licenseWindow = FALSE,
                            !.phase = IF host.mainWindow THEN "running" ELSE "quit"]
    /\ UNCHANGED <<mode, now, machine, cachedHardwareId, initialized,
                   encryptionPassword, fileKey, file, last, chain, codec, request,
                   manager, backup,
                   inflight, authority, round>>

\* the application ends and is started again: a new process
StartAgain ==
    /\ host.phase # "starting"
    /\ host' = NoHost
    /\ manager' = NullManager
    /\ cachedHardwareId' = None
    /\ initialized' = FALSE
    /\ encryptionPassword' = None
    /\ last' = NoCall
    /\ chain' = 0
    /\ UNCHANGED <<mode, now, machine, fileKey, file, codec, request, backup,
                   inflight, authority, round>>

\* what the server client resolves to while the host runs: offline, or an
\* answer that carries no tolerance of its own
HostServerResults ==
    {Offline} \cup {ServerAnswer(r) : r \in {x \in ServerResponses :
                                                x.offlineToleranceHours = None}}

\* the clock while the host runs: set back beyond the tolerance, at the
\* start, beyond the offline tolerance and beyond the grace window
HostClockPoints == {BaseTime + d : d \in {-2, 0, 25, 192}}

NextHost ==
    \/ InitializeAppPre
    \/ \E serverResult \in HostServerResults : InitializeAppPost(serverResult)
    \/ \E serverResult \in HostServerResults : IpcGetLicenseInfo(serverResult)
    \/ \E k \in (IF mode = "pre" THEN KeysPre ELSE KeysPost) :
       \E serverSuccess \in BOOLEAN :
           IpcActivateLicense(k, serverSuccess)
    \/ IpcDeactivateLicense
    \/ IpcLicenseActivated
    \/ CloseLicenseWindow
    \/ StartAgain
    \/ \E t \in HostClockPoints : SetClock(t)

SpecHost == Init /\ [][NextHost]_vars

(***************************************************************************)
(* Properties                                                              *)
(***************************************************************************)
\* the last call was validate() and it got as far as asking the server,
\* which did not answer: the record loaded and the verdict is the offline one
OfflineValidate ==
    /\ mode = "post"
    /\ last.op = "validate"
    /\ last.asked
    /\ last.server.offline

\* C1: in the pre-binding build, a validate() that starts with a last-check
\* timestamp L in the store and the clock more than the tolerance before L
\* returns CLOCK_MANIPULATED, whatever the store holds as a record
C1_ClockCheckFirst ==
    [][(/\ mode = "pre"
        /\ last'.op = "validate"
        /\ Has(View.lastCheckTime)
        /\ now < Val(View.lastCheckTime) - CLOCK_TOLERANCE)
       => last'.status = CLOCK_MANIPULATED]_vars

\* C1 happens: CLOCK_MANIPULATED was returned with the clock before L minus
\* the tolerance while the store holds a record bound to another hardware id
C1_Witness ==
    /\ mode = "pre"
    /\ last.op = "validate"
    /\ last.status = CLOCK_MANIPULATED
    /\ Has(View.lastCheckTime)
    /\ now < Val(View.lastCheckTime) - CLOCK_TOLERANCE
    /\ Has(loadLicenseData(View, StoragePassword))
    /\ Val(loadLicenseData(View, StoragePassword)).hardwareId # getHardwareId

\* C2: in the post-binding build, a validate() that falls back to the cache
\* while the clock is more than the tolerance before the time the cache was
\* written signals clock manipulation, and in particular does not return
\* OFFLINE_VALID
C2_OfflineClockRollback ==
    (/\ OfflineValidate
     /\ Has(View.serverCache)
     /\ now < Val(View.serverCache).cachedAt - CLOCK_TOLERANCE)
    => last.status # OFFLINE_VALID

\* C3: in the post-binding build, with a record present and the server
\* unreachable, validate() returns OFFLINE_EXPIRED when there is no cached
\* verdict, and with a non-revoked cache of last server check T and tolerance
\* H it returns OFFLINE_VALID when now - T <= H and OFFLINE_EXPIRED otherwise
C3_OfflineTolerance ==
    OfflineValidate =>
        IF ~Has(View.serverCache) \/ ~Has(View.lastServerCheck)
        THEN last.status = OFFLINE_EXPIRED
        ELSE ~Val(View.serverCache).revoked =>
                 last.status =
                     IF now - Val(View.lastServerCheck)
                            <= Val(View.serverCache).offlineToleranceHours
                     THEN OFFLINE_VALID
                     ELSE OFFLINE_EXPIRED

\* C3 happens: with the tolerance of 24 hours, 23 hours after the last
\* server check the offline verdict is OFFLINE_VALID
C3_Witness ==
    /\ OfflineValidate
    /\ Has(View.serverCache)
    /\ ~Val(View.serverCache).revoked
    /\ Val(View.serverCache).offlineToleranceHours = 24
    /\ now - Val(View.lastServerCheck) = 23
    /\ last.status = OFFLINE_VALID

\* C4: in the post-binding build, with a record present, the server
\* unreachable and a cached verdict that is revoked, validate() returns
\* REVOKED however long ago the cache was written
C4_OfflineRevoked ==
    (/\ OfflineValidate
     /\ Has(View.serverCache)
     /\ Val(View.serverCache).revoked)
    => last.status = REVOKED

\* C4 happens: REVOKED was returned offline from a cache older than its
\* tolerance
C4_Witness ==
    /\ OfflineValidate
    /\ Has(View.serverCache)
    /\ Val(View.serverCache).revoked
    /\ now - Val(View.lastServerCheck) > Val(View.serverCache).offlineToleranceHours
    /\ last.status = REVOKED

\* C5: in both builds, a successful activate(), then deactivate(), then
\* validate(), with the clock never moved backward in between, ends in
\* NOT_ACTIVATED
C5_DeactivateThenValidate ==
    chain = 3 => (last.op = "validate" /\ last.status = NOT_ACTIVATED)

\* C5 happens: the three calls were made in the post-binding build and the
\* verdict cache of the activation is still in the store
C5_Witness ==
    /\ chain = 3
    /\ mode = "post"
    /\ Has(View.serverCache)
    /\ last.status = NOT_ACTIVATED

\* C6: in both builds, deactivate() leaves the store without the record and
\* without the bound hardware id, and with the verdict cache, the last
\* server check and the last check time it had before the call
C6_DeactivateFrame ==
    [][last'.op = "deactivate"
       => /\ ~Has(View'.licenseData)
          /\ ~Has(View'.boundHardwareId)
          /\ View'.serverCache = View.serverCache
          /\ View'.lastServerCheck = View.lastServerCheck
          /\ View'.lastCheckTime = View.lastCheckTime]_vars

\* C6 happens: deactivate() followed a successful activate() of the
\* pre-binding build and the last check time of the activation is still there
C6_Witness ==
    /\ mode = "pre"
    /\ last.op = "deactivate"
    /\ chain = 2
    /\ ~Has(View.licenseData)
    /\ Has(View.lastCheckTime)

\* C7: in the post-binding build, a call changes the record to a new one
\* only when it is an activate() of a key of valid format that the server
\* accepted; a failed activate() returns success = false and leaves the
\* record, the verdict cache and the last server check as they were; and
\* validate() and deactivate() keep the record or remove it
C7_RecordWrittenByActivation ==
    [][(mode = "post" /\ last'.op # "none")
       => /\ (Has(View'.licenseData) /\ View'.licenseData # View.licenseData)
             => /\ last'.op = "activate"
                /\ last'.success
                /\ KeyCheckPost[last'.key].valid
                /\ last'.serverSuccess
          /\ (last'.op = "activate"
              /\ ~(KeyCheckPost[last'.key].valid /\ last'.serverSuccess))
             => /\ ~last'.success
                /\ View'.licenseData = View.licenseData
                /\ View'.serverCache = View.serverCache
                /\ View'.lastServerCheck = View.lastServerCheck
          /\ last'.op \in {"validate", "deactivate"}
             => View'.licenseData \in {View.licenseData, None}]_vars

\* C7 happens: an activate() of a key of valid format that the server
\* refused has failed while the store holds the record of an earlier
\* activation
C7_Witness ==
    /\ mode = "post"
    /\ last.op = "activate"
    /\ KeyCheckPost[last.key].valid
    /\ ~last.serverSuccess
    /\ ~last.success
    /\ Has(loadLicenseData(View, StoragePassword))

\* C8: in both builds, the status validate() returns is a member of the
\* LicenseStatus enumeration of the manager in use
C8_StatusInEnumeration ==
    last.op = "validate"
    => last.status \in (IF mode = "pre" THEN LicenseStatusPre
                        ELSE LicenseStatusPost)

\* C8 happens: validate() of the post-binding build returned a status that
\* only this build has
C8_Witness ==
    /\ mode = "post"
    /\ last.op = "validate"
    /\ last.status = OFFLINE_EXPIRED

\* the store file holds the record as the engine wrote it when the hardware
\* fingerprint was f1
StoredUnder(f1) ==
    /\ fileKey = Some(f1)
    /\ Has(file.licenseData)
    /\ Val(file.licenseData).intact
    /\ Val(file.licenseData).json
    /\ Val(file.licenseData).password = f1
    /\ Val(file.licenseData).data.hardwareId = f1

\* C9: in the pre-binding build, a validate() that runs with fingerprint F2
\* on a store whose record was written with fingerprint F1 # F2 returns
\* HARDWARE_MISMATCH
C9_FingerprintChange ==
    [][(/\ mode = "pre"
        /\ last'.op = "validate"
        /\ Has(fileKey)
        /\ StoredUnder(Val(fileKey))
        /\ getHardwareId # Val(fileKey))
       => last'.status = HARDWARE_MISMATCH]_vars

\* the machine whose fingerprint a key of the model was generated for
KeysIssuedTo(m) ==
    IF m = "A" THEN {KeyPreA, KeyPreOld, Lower(KeyPreA) \o <<Blank>>}
    ELSE IF m = "C" THEN {KeyPreC}
    ELSE {}

\* C10 as stated: in the pre-binding build no key activates on a machine
\* whose fingerprint differs from the fingerprint it was generated for
C10_NoActivationOnOtherMachine ==
    (mode = "pre" /\ last.op = "activate" /\ last.success)
    => \A m \in Machines \cup {"C"} :
           last.key \in KeysIssuedTo(m) => getHardwareId = generateHardwareId(m)

\* C10: in the pre-binding build, activate() of a key of valid format whose
\* embedded fragment differs from the first 8 characters of the current
\* fingerprint fails and leaves the store file as it was, so a key activates
\* only on a machine whose fingerprint has the first 8 characters of the
\* fingerprint the key was generated for
C10_FragmentBinding ==
    [][(mode = "pre" /\ last'.op = "activate")
       => /\ (/\ KeyCheckPre[last'.key].valid
              /\ Val(KeyCheckPre[last'.key].hardwareId)
                     # toUpperCase(substring(getHardwareId, 0, 8)))
             => (~last'.success /\ file' = file /\ fileKey' = fileKey)
          /\ last'.success
             => \A m \in Machines \cup {"C"} :
                    last'.key \in KeysIssuedTo(m)
                    => substring(generateHardwareId(m), 0, 8)
                           = substring(getHardwareId, 0, 8)]_vars

\* C10 happens: a key of valid format and not expired, generated for another
\* fingerprint fragment, was refused
C10_Witness ==
    /\ mode = "pre"
    /\ last.op = "activate"
    /\ KeyCheckPre[last.key].valid
    /\ Val(KeyCheckPre[last.key].hardwareId)
           # toUpperCase(substring(getHardwareId, 0, 8))
    /\ ~last.success
    /\ last.status = "License key ini tidak terdaftar untuk perangkat ini."

\* the record validate() has just read, when it decrypts
LoadedRecord == loadLicenseData(View, StoragePassword)

\* C11: in the pre-binding build, validate() returns VALID only when the
\* expiry instant of the record is not before the clock of the call (the
\* claim asks for an expiry in the future; an expiry in the past already
\* contradicts it)
C11_ValidOnlyBeforeExpiry ==
    (mode = "pre" /\ last.op = "validate" /\ last.status = VALID)
    => /\ Has(LoadedRecord)
       /\ now <= Val(Val(LoadedRecord).expiryDate)

\* C12: in the pre-binding build, validate() returns GRACE_PERIOD only while
\* the time since the expiry instant is at most GRACE_PERIOD_DAYS days
C12_GraceWindow ==
    (mode = "pre" /\ last.op = "validate" /\ last.status = GRACE_PERIOD)
    => /\ Has(LoadedRecord)
       /\ now - Val(Val(LoadedRecord).expiryDate)
              <= GRACE_PERIOD_DAYS * HOURS_PER_DAY

\* C13: the pre-binding validator accepts every generated key and returns
\* the expiry date and the first 8 characters, in upper case, of the
\* hardware id the key was generated from
C13_RoundTripPre ==
    (codec.op = "generate" /\ codec.product = "eyesee")
    => /\ codec.verdictPre.valid
       /\ codec.verdictPre.expiryDate = codec.expiryDate
       /\ codec.verdictPre.hardwareId
              = Some(toUpperCase(substring(codec.hardwareId, 0, 8)))

\* C14: a key generated for a product is accepted, with the code of that
\* product, by the validator of that product and rejected by the validator
\* of every other product
C14_RoundTripPost ==
    (codec.op = "generate" /\ codec.product \in ProductIds)
    => /\ \A q \in ProductIds :
              /\ codec.verdictPost[q].valid <=> q = codec.product
              /\ q = codec.product
                 => codec.verdictPost[q].productCode = Some(PRODUCTS[q].code)
       /\ ~codec.verdictPre.valid

\* C14 happens: a key generated for bms is accepted by the bms validator and
\* refused by the vcomm validator as a key of another application
C14_Witness ==
    /\ codec.op = "generate"
    /\ codec.product = "bms"
    /\ codec.verdictPost["bms"].valid
    /\ codec.verdictPost["vcomm"].error = ErrProductPost

\* C15: an accepted key with one character of its last segment replaced by
\* another character of the alphabet is rejected, with the checksum error,
\* by the validator that accepted it
C15_ChecksumCharReplaced ==
    codec.op = "replaceChecksum"
    => IF codec.product = "eyesee"
       THEN ~codec.verdictPre.valid /\ codec.verdictPre.error = ErrChecksum
       ELSE /\ ~codec.verdictPost[codec.product].valid
            /\ codec.verdictPost[codec.product].error = ErrChecksum

\* C15 happens: the last character of the checksum of an accepted
\* pre-binding key was replaced and the key was rejected
C15_Witness ==
    /\ codec.op = "replaceChecksum"
    /\ codec.product = "eyesee"
    /\ codec.key[Len(codec.key)] # codec.from[Len(codec.from)]
    /\ codec.verdictPre.error = ErrChecksum

\* C16: a well-formed key whose product code is not the one of the validator
\* is rejected with the product error, which is not the checksum error
C16_ProductError ==
    codec.op = "replaceProduct"
    => /\ ErrProductPre # ErrChecksum
       /\ ErrProductPost # ErrChecksum
       /\ codec.product = "eyesee" => codec.verdictPre.error = ErrProductPre
       /\ codec.product \in ProductIds
          => \A q \in ProductIds :
                 PRODUCTS[q].code # EmbeddedCode(codec.key)
                 => codec.verdictPost[q].error = ErrProductPost

\* the blob is not what encrypt() made of a JSON text under the password pw:
\* bytes flipped or cut off, another password, a plaintext that does not parse
Corrupt(blob, pw) == ~blob.intact \/ blob.password # pw \/ ~blob.json

\* C17: in the post-binding build, with a corrupt licenseData blob in the
\* store, loadLicenseData() is null and validate() returns INVALID_KEY or
\* NOT_ACTIVATED
C17_CorruptBlob ==
    [][(/\ mode = "post"
        /\ last'.op = "validate"
        /\ Has(View.licenseData)
        /\ Corrupt(Val(View.licenseData), StoragePassword))
       => /\ loadLicenseData(View, StoragePassword) = None
          /\ last'.status \in {INVALID_KEY, NOT_ACTIVATED}]_vars

\* C17 happens: validate() has answered INVALID_KEY and removed the blob
C17_Witness ==
    /\ mode = "post"
    /\ last.op = "validate"
    /\ last.status = INVALID_KEY
    /\ ~last.asked
    /\ ~Has(View.licenseData)

\* C18: activate(key), validate() and deactivate() return a result for every
\* input, a key that is not a string included: no call ends by throwing
C18_AlwaysAResult == last.status # THROWN

\* C19: on a refused connection, a failed name lookup and a timeout the
\* client's validateLicense gives an offline result without a verdict, and
\* validate() gives one status for the three of them in every store state
\* and at every clock
C19_OneOfflineOutcome ==
    /\ \A event \in {"refused", "dns", "timeout"} :
          LET result == clientValidateLicense(makeRequest(event, <<>>))
          IN  /\ result.offline /\ ~result.valid /\ ~result.activated
              /\ ~result.revoked /\ result.offlineToleranceHours = None
              /\ Has(loadLicenseData(View, StoragePassword))
                    => validateLicensePost(View, StoragePassword, now, result).status
                       = validateLicensePost(View, StoragePassword, now, Offline).status
    /\ (/\ last.op = "validate" /\ last.asked /\ request.phase = "idle"
        /\ request.via \in {"refused", "dns", "timeout"})
          => /\ last.server.offline
             /\ last.status \in {OFFLINE_VALID, OFFLINE_EXPIRED, REVOKED}

C19_Witness ==
    /\ last.op = "validate" /\ last.asked /\ request.phase = "idle"
    /\ request.via = "dns" /\ last.status = OFFLINE_EXPIRED

C21_ServerToleranceApplied ==
    Has(loadLicenseData(View, StoragePassword)) =>
        \A response \in ServerResponses : \A t \in ClockPoints("post") :
            (response.valid /\ ~response.revoked /\ t >= now) =>
                LET answered == validateLicensePost(View, StoragePassword, now,
                                    clientValidateLicense(makeRequest("response", response)))
                    carried == IF Has(response.offlineToleranceHours)
                               THEN Val(response.offlineToleranceHours)
                               ELSE OFFLINE_TOLERANCE_HOURS
                    offline == validateLicensePost(answered.view, StoragePassword, t,
                                                   Offline)
                IN  /\ answered.status = VALID
                    /\ offline.status = IF t - now > carried THEN OFFLINE_EXPIRED
                                        ELSE OFFLINE_VALID

\* C22: the host creates the main window only when the license is in a
\* licensed state: the last validate() returned VALID or OFFLINE_VALID (VALID
\* or GRACE_PERIOD in the pre-binding build) or the last activate() succeeded
C22_MainWindowOnlyWhenLicensed ==
    [][(host'.mainWindow /\ ~host.mainWindow)
       => host'.license \in LicensedStatuses \cup {ACTIVATED}]_vars

C23_LastCheckNeverDecreases ==
    [][last'.op # "none"
       => /\ Has(View.lastCheckTime)
               => /\ Has(View'.lastCheckTime)
                  /\ Val(View'.lastCheckTime) >= Val(View.lastCheckTime)
          /\ Has(View.lastServerCheck)
               => /\ Has(View'.lastServerCheck)
                  /\ Val(View'.lastServerCheck) >= Val(View.lastServerCheck)]_vars

\* C24: pre-binding build: while the clock is more than the tolerance behind
\* the stored last-check time, a deactivate() or an activate() with any key
\* leaves it so, and a validate() after it returns CLOCK_MANIPULATED
C24_ClockEvidenceSurvives ==
    [][(/\ mode = "pre"
        /\ checkClockManipulation(View, now, CLOCK_TOLERANCE)
        /\ last'.op \in {"activate", "deactivate"})
       => validateLicensePre(View', StoragePassword', getHardwareId',
                             now').status = CLOCK_MANIPULATED]_vars

\* C25: pre-binding validate(): a call that does not return
\* CLOCK_MANIPULATED sets the stored last-check time to the clock of the
\* call, and a call that returns CLOCK_MANIPULATED leaves the store as it was
C25_LastCheckSetByValidate ==
    [][(mode = "pre" /\ last'.op = "validate")
       => IF last'.status = CLOCK_MANIPULATED
          THEN file' = file /\ fileKey' = fileKey
          ELSE View'.lastCheckTime = Some(now')]_vars

\* validate() has answered HARDWARE_MISMATCH and the last-check time is the
\* clock of that call, later than the one stored before
C25_Witness ==
    /\ mode = "pre"
    /\ last.op = "validate"
    /\ last.status = HARDWARE_MISMATCH
    /\ View.lastCheckTime = Some(now)
    /\ now > BaseTime

\* C27: post-binding validate(): when no record is stored it returns
\* NOT_ACTIVATED without asking the server and leaves the verdict cache and
\* lastServerCheck as they were, a revoked verdict in the cache included
C27_NoRecordNoRequest ==
    [][(mode = "post" /\ last'.op = "validate" /\ ~hasLicense(View))
       => /\ last'.status = NOT_ACTIVATED
          /\ ~last'.asked
          /\ request' = NoRequest
          /\ View'.serverCache = View.serverCache
          /\ View'.lastServerCheck = View.lastServerCheck]_vars

\* validate() has answered NOT_ACTIVATED without asking while the cache
\* holds a revoked verdict
C27_Witness ==
    /\ mode = "post"
    /\ last.op = "validate"
    /\ last.status = NOT_ACTIVATED
    /\ ~last.asked
    /\ ~hasLicense(View)
    /\ Has(View.serverCache)
    /\ Val(View.serverCache).revoked

\* the segments of a well-formed key before the last, joined: what the
\* checksum is computed of
DataToCheck(key) ==
    LET segments == split(toUpperCase(trim(key)))
        n == Len(segments)
    IN  [i \in 1..(SEGMENT_LENGTH * (n - 1)) |->
            segments[((i - 1) \div SEGMENT_LENGTH) + 1][((i - 1) % SEGMENT_LENGTH) + 1]]

\* the last segment of the key is not the checksum under the secret
ChecksumFails(key, secretKey) ==
    LET segments == split(toUpperCase(trim(key)))
    IN  segments[Len(segments)] # generateChecksum(secretKey, DataToCheck(key))

FormatErrors == {ErrSegmentCount, ErrSegmentLength, ErrCharset}

\* C28: validateLicenseKey checks segment count, segment length and
\* alphabet, checksum, product code and expiry bound in this order and
\* reports the first failure: a key of the right format whose checksum fails
\* is reported as an invalid key, whatever its product code
C28_FirstFailingStep ==
    codec # NoCodec
    => /\ (codec.verdictPre.error \notin FormatErrors
           /\ ChecksumFails(codec.key, SECRET_KEY_PRE))
          => codec.verdictPre.error = ErrChecksum
       /\ \A q \in ProductIds :
             (codec.verdictPost[q].error \notin FormatErrors
              /\ ChecksumFails(codec.key, PRODUCTS[q].secretKey))
             => codec.verdictPost[q].error = ErrChecksum

\* the expiry a well-formed pre-binding key carries
DecodedExpiry(key) ==
    decodeBase36(split(toUpperCase(trim(key)))[3]) * HOURS_PER_EXPIRY_UNIT

\* C29: pre-binding validateLicenseKey does not look at the clock: its
\* verdict on a key is the same at every clock, and a key with correct
\* format, checksum and product code is accepted exactly when the expiry it
\* carries lies in 2020-01-01..2100-01-01, before or after the present, and
\* rejected with the invalid-expiry error otherwise
C29_ExpiryBoundOnly ==
    (codec # NoCodec /\ codec.product = "eyesee")
    => /\ validateLicenseKeyPre(codec.key) = codec.verdictPre
       /\ codec.verdictPre.error \notin FormatErrors \cup {ErrChecksum, ErrProductPre}
          => LET expiryDate == DecodedExpiry(codec.key)
             IN  IF expiryDate >= MIN_DATE /\ expiryDate <= MAX_DATE
                 THEN /\ codec.verdictPre.valid
                      /\ codec.verdictPre.expiryDate = Some(expiryDate)
                 ELSE /\ ~codec.verdictPre.valid
                      /\ codec.verdictPre.error = ErrExpiryBound

\* a key whose expiry is behind the clock is accepted
C29_Witness ==
    /\ codec.op = "generate"
    /\ codec.product = "eyesee"
    /\ codec.verdictPre.valid
    /\ Val(codec.verdictPre.expiryDate) < now
    /\ now # BaseTime

\* C30: when validate() finds a stored record that does not decrypt or
\* parse, it removes the record only with a backup copy of it written
C30_BackupBeforeRemoval ==
    [][(/\ last'.op = "validate"
        /\ Has(View.licenseData)
        /\ ~Has(loadLicenseData(View, StoragePassword))
        /\ ~Has(View'.licenseData))
       => backup' = View.licenseData]_vars

\* C31: a validate() of the post-binding manager that loaded a record and
\* found the server unreachable leaves the verdict cache and lastServerCheck
\* exactly as they were, so offline checks never move the start of the
\* offline window.
C31_OfflineValidateKeepsCache ==
    [][(/\ request.phase = "waiting"
        /\ request.op = "validate"
        /\ request'.phase = "idle"
        /\ last'.server.offline)
       => /\ View'.serverCache = View.serverCache
          /\ View'.lastServerCheck = View.lastServerCheck]_vars

\* an offline validate() has just run out of tolerance although an earlier
\* offline validate() of the same cache could only have been within it
C31_Witness ==
    /\ last.op = "validate"
    /\ last.asked
    /\ last.server.offline
    /\ last.status = OFFLINE_EXPIRED
    /\ Has(View.serverCache)
    /\ ~Val(View.serverCache).revoked
    /\ now - Val(View.lastServerCheck) > OFFLINE_TOLERANCE_HOURS

\* C32: validate() of the post-binding manager returns OFFLINE_VALID only
\* when the verdict cache, the outcome of the last call the server answered,
\* says valid = true.
C32_OfflineValidNeedsValidVerdict ==
    (last.op = "validate" /\ last.status = OFFLINE_VALID)
    => /\ Has(View.serverCache)
       /\ Val(View.serverCache).valid

\* C35: when validate() of the post-binding manager loaded a record and the
\* server answered, an answer with revoked = true gives REVOKED whatever its
\* valid flag says, and VALID is returned only for an answer of that very
\* call with valid = true and revoked = false.
C35_RevokedWinsOverValid ==
    last.op = "validate"
    => /\ (last.asked /\ ~last.server.offline /\ last.server.revoked)
          => last.status = REVOKED
       /\ last.status = VALID
          => /\ last.asked
             /\ request.via = "response"
             /\ ~last.server.offline
             /\ last.server.valid
             /\ ~last.server.revoked

\* the server answered valid = true and revoked = true at once
C35_Witness ==
    /\ last.op = "validate"
    /\ request.via = "response"
    /\ last.server.valid
    /\ last.server.revoked
    /\ last.status = REVOKED

\* C36: a successful activate() of the post-binding manager leaves a verdict
\* cache with valid = true and revoked = false and lastServerCheck at the
\* activation time, and a validate() that finds the server unreachable up to
\* 24 hours later returns OFFLINE_VALID.
C36_ActivationCountsAsServerCheck ==
    (last.op = "activate" /\ last.success)
    => /\ Has(View.serverCache)
       /\ Val(View.serverCache).valid
       /\ ~Val(View.serverCache).revoked
       /\ View.lastServerCheck = Some(now)
       /\ \A d \in 0 .. OFFLINE_TOLERANCE_HOURS :
          \A event \in NetworkEvents \ {"response"} :
              validateLicensePost(View, StoragePassword, now + d,
                                  clientValidateLicense(makeRequest(event, <<>>))).status
                  = OFFLINE_VALID

\* an activation the server accepted at a clock later than that of an
\* earlier server check
C36_Witness ==
    /\ last.op = "activate"
    /\ last.success
    /\ request.via = "response"
    /\ now > BaseTime
    /\ Val(View.serverCache).cachedAt = now

\* C37: when validate() of the post-binding manager is answered with
\* valid = false, revoked = false, activated = false it returns
\* NOT_ACTIVATED and leaves no activation record; without a record every
\* validate() returns NOT_ACTIVATED whatever the server would say and
\* whatever the clock, and only an activate() that succeeds brings a record
\* back.
C37_NotActivatedUntilActivated ==
    /\ [](/\ (/\ last.op = "validate"
              /\ last.asked
              /\ ~last.server.offline
              /\ ~last.server.valid
              /\ ~last.server.revoked
              /\ ~last.server.activated)
             => (last.status = NOT_ACTIVATED /\ ~hasLicense(View))
          /\ ~hasLicense(View)
             => \A serverResult \in ServerResults :
                \A t \in ClockPoints("post") :
                    validateLicensePost(View, StoragePassword, t,
                                        serverResult).status = NOT_ACTIVATED)
    /\ [][(~hasLicense(View) /\ hasLicense(View'))
          => (last'.op = "activate" /\ last'.success)]_vars

\* the server has just answered that this machine is not activated and the
\* record of the earlier activation is gone
C37_Witness ==
    /\ last.op = "validate"
    /\ last.asked
    /\ request.via = "response"
    /\ ~last.server.valid /\ ~last.server.revoked /\ ~last.server.activated
    /\ last.status = NOT_ACTIVATED
    /\ ~hasLicense(View)
    /\ Has(View.serverCache)

\* C38: whenever activate(key) of the pre-binding manager has succeeded, a
\* validate() at the same clock value returns VALID or GRACE_PERIOD: the
\* check holds for the validate() composed with the store the activation
\* left and for the validate() call that follows it as the next step.
C38_ActivateAgreesWithValidate ==
    /\ []((last.op = "activate" /\ last.success)
          => validateLicensePre(View, StoragePassword, getHardwareId, now).status
                 \in {VALID, GRACE_PERIOD})
    /\ [][(last.op = "activate" /\ last.success /\ last'.op = "validate")
          => last'.status \in {VALID, GRACE_PERIOD}]_vars

\* a key activated on the last day activate() accepts it, seven days after
\* its expiry date
C38_Witness ==
    /\ last.op = "activate"
    /\ last.success
    /\ now = BaseTime + GRACE_PERIOD_DAYS * 24
    /\ validateLicensePre(View, StoragePassword, getHardwareId, now).status
           = GRACE_PERIOD

\* C33: when overlapping validate(), activate() and deactivate() calls of
\* the post-binding manager have all returned, and the server's data was
\* changed by these calls only, the store is one that the same calls leave
\* when made one after the other in some order.
C33_OverlapIsSequential ==
    (AllFree /\ ~round.admin /\ round.calls # <<>>)
    => View \in SequentialOutcomes

\* C34: when validate() calls, and no other calls, overlapped and have all
\* returned, and the newest verdict the server produced for them said
\* revoked, the verdict cache says revoked, in whatever order the answers
\* arrived.
C34_NewestVerdictStays ==
    (/\ AllFree
     /\ \A i \in 1 .. Len(round.calls) : round.calls[i].op = "validate"
     /\ Has(round.newest)
     /\ Val(round.newest).revoked)
    => /\ Has(View.serverCache)
       /\ Val(View.serverCache).revoked

====
